---- MODULE Spec2Model ----
(***************************************************************************)
(* Phone/OTP authentication service (radif_service).                       *)
(*                                                                         *)
(* The durable state is the two PostgreSQL tables `otps` and `users`.      *)
(* Every HTTP request runs on its own goroutine; the only synchronisation  *)
(* is the database, used at its default isolation level READ COMMITTED:    *)
(* each statement sees the rows committed when it starts, an UPDATE waits  *)
(* for a row another open transaction has updated and then re-checks its   *)
(* WHERE clause on the committed version of that row, and a UNIQUE index   *)
(* makes the second insert of a key fail.                                  *)
(*                                                                         *)
(* One step of a request is one store call together with the local code    *)
(* that follows it up to the next store call.  Time is counted in seconds. *)
(***************************************************************************)
EXTENDS Integers, Sequences, FiniteSets, TLC

(***************************************************************************)
(* Bounds of the model.                                                    *)
(***************************************************************************)
NumProcs == 3
NumPhones == 1
NumCodes == 2
MaxTicks == 2

(***************************************************************************)
(* Program constants.                                                      *)
(***************************************************************************)
otpTTL == 120
tokenTTL == 2592000
AccountTypes == {"personal", "children", "business"}
RequestedTypes == {"personal", "business"}

Procs == 1..NumProcs
Phones == 1..NumPhones
NULL == -1
NoUser == 0
NoOtp == 0
NoToken == <<>>

VARIABLES now, otps, users, pc, loc, verified, superseded, seqOK, bucket, appEnv, stdlog

vars == <<now, otps, users, pc, loc, verified, superseded, seqOK, bucket, appEnv, stdlog>>

(***************************************************************************)
(* generateOTP: fmt.Sprintf("%05d", n) as the string of five decimal       *)
(* digits of n, most significant first.                                    *)
(***************************************************************************)
Sprintf05d_Unpadded(n) ==
    IF n < 10 THEN << n >>
    ELSE IF n < 100 THEN << n \div 10, n % 10 >>
    ELSE IF n < 1000 THEN << n \div 100, (n \div 10) % 10, n % 10 >>
    ELSE IF n < 10000 THEN << n \div 1000, (n \div 100) % 10, (n \div 10) % 10, n % 10 >>
    ELSE << (n \div 10000) % 10, (n \div 1000) % 10, (n \div 100) % 10, (n \div 10) % 10, n % 10 >>

Sprintf05d(n) == << (n \div 10000) % 10, (n \div 1000) % 10, (n \div 100) % 10, (n \div 10) % 10, n % 10 >>

generateOTP == { Sprintf05d(n) : n \in 0..(NumCodes - 1) }

NoCode == <<>>

(***************************************************************************)
(* issueToken: the HS256 token is a deterministic function of its claims   *)
(* and the server key, so it is represented by the claims themselves.      *)
(***************************************************************************)
issueToken_NoTime(userID, phone, accountType, t) == << userID, phone, accountType, 0, tokenTTL >>

issueToken_NoTTL(userID, phone, accountType, t) == << userID, phone, accountType, t, t >>

issueToken(userID, phone, accountType, t) == << userID, phone, accountType, t, t + tokenTTL >>

(***************************************************************************)
(* Optional text: a nil *string and an SQL NULL are the empty set, a text  *)
(* is the singleton of its sequence of characters.                         *)
(***************************************************************************)
Nil == {}

Some(s) == {s}

Str(o) == CHOOSE s \in o : TRUE

(* UpdateProfileParams *)
ProfileFields == {"username", "fullName", "bio", "businessPhone", "address"}

NoParams == [ username |-> Nil, fullName |-> Nil, bio |-> Nil, businessPhone |-> Nil, address |-> Nil ]

(* the "avatar" part of a multipart form: the form field, the declared    *)
(* file name and content type, the leading bytes and the length of the    *)
(* file, and the bytes of the body around it                              *)
NoFile == [ field |-> "", name |-> "", declared |-> "", head |-> <<>>, size |-> 0, overhead |-> 0 ]

NoKey == <<>>

(* the fields of a JSON request body as they arrive; a text is the        *)
(* sequence of its characters, each written as its distance from '0', so  *)
(* that the decimal digits are 0..9                                       *)
NoRaw == [ phone |-> <<>>, code |-> <<>>, accountType |-> "" ]

(***************************************************************************)
(* Bearer credentials.  A JWT is its algorithm, its claims and a signature *)
(* over both; the signature is modelled by what it was computed from.      *)
(***************************************************************************)
jwtSecret == "JWT_SECRET"

SigningMethodHMAC == {"HS256", "HS384", "HS512"}

Sign(key, alg, claims) == << key, alg, claims >>

NoCred == [ alg |-> "", claims |-> NoToken, sig |-> <<>> ]

(* no Authorization header *)
NoHeader == [ scheme |-> "", cred |-> NoCred ]

(* token.SignedString([]byte(s.cfg.JWTSecret)) with SigningMethodHS256 *)
SignedString(claims) == [ alg |-> "HS256", claims |-> claims, sig |-> Sign(jwtSecret, "HS256", claims) ]

(* jwt.Parse with the key function of RequireAuth: the method is HMAC, the *)
(* signature verifies under the server key, and now is before exp          *)
Parse_NoExpiry(cred, t) ==
    /\ cred.alg \in SigningMethodHMAC
    /\ cred.sig = Sign(jwtSecret, cred.alg, cred.claims)

Parse(cred, t) ==
    /\ cred.alg \in SigningMethodHMAC
    /\ cred.sig = Sign(jwtSecret, cred.alg, cred.claims)
    /\ t < cred.claims[5]

(* the middleware lets the request through to its handler *)
RequireAuth(h, t) == h.scheme = "Bearer" /\ Parse(h.cred, t)

(***************************************************************************)
(* Rows of the two tables.                                                 *)
(***************************************************************************)
OtpIds == 1..Len(otps)

UserRows(phone) == { i \in 1..Len(users) : users[i].phone = phone }

ActiveOTPs_AtExpiry(phone, t) == { i \in OtpIds : otps[i].phone = phone /\ otps[i].usedAt = NULL /\ otps[i].expiresAt >= t }

(* SELECT ... WHERE phone = $1 AND used_at IS NULL AND expires_at > NOW() *)
ActiveOTPs(phone, t) == { i \in OtpIds : otps[i].phone = phone /\ otps[i].usedAt = NULL /\ otps[i].expiresAt > t }

GetActiveOTP_Oldest(phone, t) == { i \in ActiveOTPs(phone, t) : \A j \in ActiveOTPs(phone, t) : otps[j].createdAt >= otps[i].createdAt }

(* ... ORDER BY created_at DESC LIMIT 1: the rows the query may return     *)
(* (rows with equal created_at are returned in either order).              *)
GetActiveOTP(phone, t) == { i \in ActiveOTPs(phone, t) : \A j \in ActiveOTPs(phone, t) : otps[j].createdAt <= otps[i].createdAt }

(***************************************************************************)
(* Local state of a request.                                               *)
(***************************************************************************)
Idle == [op |-> "none", phone |-> 0, code |-> NoCode, accountType |-> "", expiresAt |-> 0, txStart |-> 0, cand |-> {}, marked |-> {}, otpId |-> NoOtp, status |-> "none", isNewUser |-> FALSE, token |-> NoToken, userId |-> NoUser, issuedAt |-> 0, prior |-> NoCode, alone |-> FALSE, cause |-> "none", faulted |-> FALSE, header |-> NoHeader, params |-> NoParams, available |-> FALSE, file |-> NoFile, key |-> NoKey, raw |-> NoRaw]

(* the requests are numbered in the order in which they arrive *)
Free(p) == pc[p] = "idle" /\ (IF p = 1 THEN TRUE ELSE pc[p - 1] # "idle")

InFlight(p) == pc[p] \notin {"idle", "done"}

InTx(p) == pc[p] \in {"scan", "invalidate", "commit"}

(* rows on which another open transaction holds a row lock *)
LockedByOther(p) == UNION { loc[q].marked : q \in { r \in Procs \ {p} : InTx(r) } }

(* requests for the phone running at the moment a request for it starts *)
Others(p, phone) == { q \in Procs \ {p} : InFlight(q) /\ loc[q].phone = phone }

(* a request that starts for the phone ends the solitude of those running *)
Joined(p, phone, l) == [ q \in Procs |-> IF q \in Others(p, phone) THEN [ l[q] EXCEPT !.alone = FALSE ] ELSE l[q] ]

(* ... and a RequestCode that starts is a new RequestCode for the         *)
(* VerifyCode calls of the phone that are running                         *)
Requested(p, phone, l) == [ q \in Procs |-> IF q \in Others(p, phone) THEN [ l[q] EXCEPT !.alone = FALSE, !.prior = NoCode ] ELSE l[q] ]

Init ==
    /\ now = 0
    /\ otps = <<>>
    /\ users = <<>>
    /\ pc = [ p \in Procs |-> "idle" ]
    /\ loc = [ p \in Procs |-> Idle ]
    /\ verified = {}
    /\ superseded = {}
    /\ seqOK = [ ph \in Phones |-> NoCode ]
    /\ bucket = {}
    /\ appEnv = "development"
    /\ stdlog = {}

(***************************************************************************)
(* The clock.  A step of otpTTL seconds stands for that many steps of one  *)
(* second with nothing in between.                                         *)
(***************************************************************************)
TicksOf(t) == (t \div tokenTTL) + ((t % tokenTTL) \div otpTTL) + ((t % tokenTTL) % otpTTL)

Tick(d) ==
    /\ TicksOf(now) < MaxTicks
    /\ now' = now + d
    /\ UNCHANGED <<appEnv, stdlog, bucket, otps, users, pc, loc, verified, superseded, seqOK>>

(***************************************************************************)
(* Service.SendOTP / Repository.UpsertOTP                                  *)
(***************************************************************************)
(* generateOTP, expiresAt := time.Now().Add(otpTTL), db.Begin *)
SendOTP(p, phone, code) ==
    /\ Free(p)
    /\ pc' = [ pc EXCEPT ![p] = "scan" ]
    /\ loc' = [ Requested(p, phone, loc) EXCEPT ![p] = [ Idle EXCEPT !.op = "send", !.phone = phone, !.code = code, !.expiresAt = now + otpTTL, !.txStart = now, !.alone = (Others(p, phone) = {}) ] ]
    /\ seqOK' = [ seqOK EXCEPT ![phone] = NoCode ]
    /\ UNCHANGED <<appEnv, stdlog, bucket, now, otps, users, verified, superseded>>

UpsertOTP_Scan_AllPhones(p) ==
    /\ pc[p] = "scan"
    /\ pc' = [ pc EXCEPT ![p] = "invalidate" ]
    /\ loc' = [ loc EXCEPT ![p].cand = { i \in OtpIds : otps[i].usedAt = NULL } ]
    /\ UNCHANGED <<appEnv, stdlog, bucket, now, otps, users, verified, superseded, seqOK>>

(* UPDATE otps SET used_at = NOW() WHERE phone = $1 AND used_at IS NULL:  *)
(* the statement starts and finds its rows among the committed ones       *)
UpsertOTP_Scan(p) ==
    /\ pc[p] = "scan"
    /\ pc' = [ pc EXCEPT ![p] = "invalidate" ]
    /\ loc' = [ loc EXCEPT ![p].cand = { i \in OtpIds : otps[i].phone = loc[p].phone /\ otps[i].usedAt = NULL } ]
    /\ UNCHANGED <<appEnv, stdlog, bucket, now, otps, users, verified, superseded, seqOK>>

UpsertOTP_Invalidate_Skip(p) ==
    /\ pc[p] = "invalidate"
    /\ pc' = [ pc EXCEPT ![p] = "commit" ]
    /\ loc' = [ loc EXCEPT ![p].marked = {}, ![p].cand = {} ]
    /\ UNCHANGED <<appEnv, stdlog, bucket, now, otps, users, verified, superseded, seqOK>>

UpsertOTP_Invalidate_NoTx(p) ==
    /\ pc[p] = "invalidate"
    /\ loc[p].cand \cap LockedByOther(p) = {}
    /\ pc' = [ pc EXCEPT ![p] = "commit" ]
    /\ loc' = [ loc EXCEPT ![p].marked = { i \in loc[p].cand : otps[i].usedAt = NULL }, ![p].cand = {} ]
    /\ otps' = [ i \in OtpIds |-> IF i \in loc[p].cand /\ otps[i].usedAt = NULL THEN [ otps[i] EXCEPT !.usedAt = loc[p].txStart ] ELSE otps[i] ]
    /\ UNCHANGED <<appEnv, stdlog, bucket, now, users, verified, superseded, seqOK>>

(* ... it waits for the rows another transaction has locked, re-checks    *)
(* used_at IS NULL on them and updates (and locks) those that still match *)
UpsertOTP_Invalidate(p) ==
    /\ pc[p] = "invalidate"
    /\ loc[p].cand \cap LockedByOther(p) = {}
    /\ pc' = [ pc EXCEPT ![p] = "commit" ]
    /\ loc' = [ loc EXCEPT ![p].marked = { i \in loc[p].cand : otps[i].usedAt = NULL }, ![p].cand = {} ]
    /\ UNCHANGED <<appEnv, stdlog, bucket, now, otps, users, verified, superseded, seqOK>>

(* Config.IsProduction: c.AppEnv == "production" *)
IsProduction(env) == env = "production"

Printf_Code(env, phone, code) == [ phone |-> phone, code |-> code ]

(* the line SendOTP writes once the passcode is stored:                    *)
(* "[OTP] phone=%s code=%s" or, in production, "[OTP] sent to phone=%s"    *)
Printf(env, phone, code) == IF ~IsProduction(env) THEN [ phone |-> phone, code |-> code ] ELSE [ phone |-> phone, code |-> NoCode ]

(* the rows of the table once the transaction of p is committed *)
Committed(p) == [ i \in OtpIds |-> IF i \in loc[p].marked THEN [ otps[i] EXCEPT !.usedAt = loc[p].txStart ] ELSE otps[i] ]

NewOtp(p) == [ id |-> Len(otps) + 1, phone |-> loc[p].phone, code |-> loc[p].code, expiresAt |-> loc[p].expiresAt, usedAt |-> NULL, createdAt |-> loc[p].txStart ]

UpsertOTP_Commit_Replace(p) ==
    /\ pc[p] = "commit"
    /\ otps' = Append(SelectSeq(otps, LAMBDA r : r.id \notin loc[p].marked), NewOtp(p))
    /\ superseded' = superseded \cup loc[p].marked
    /\ pc' = [ pc EXCEPT ![p] = "done" ]
    /\ loc' = [ loc EXCEPT ![p].status = "ok", ![p].otpId = Len(otps) + 1, ![p].marked = {} ]
    /\ stdlog' = stdlog \cup { Printf(appEnv, loc[p].phone, loc[p].code) }
    /\ UNCHANGED <<appEnv, bucket, now, users, verified, seqOK>>

(* INSERT INTO otps (phone, code, expires_at); tx.Commit; SendOTP returns *)
UpsertOTP_Commit(p) ==
    /\ pc[p] = "commit"
    /\ otps' = Append(Committed(p), NewOtp(p))
    /\ superseded' = superseded \cup loc[p].marked
    /\ pc' = [ pc EXCEPT ![p] = "done" ]
    /\ loc' = [ loc EXCEPT ![p].status = "ok", ![p].otpId = Len(otps) + 1, ![p].marked = {} ]
    /\ stdlog' = stdlog \cup { Printf(appEnv, loc[p].phone, loc[p].code) }
    /\ UNCHANGED <<appEnv, bucket, now, users, verified, seqOK>>

(***************************************************************************)
(* Service.VerifyOTP                                                       *)
(***************************************************************************)
(* why the lookup of a VerifyCode finds no passcode for the phone *)
NoActiveCause(phone) ==
    IF { i \in OtpIds : otps[i].phone = phone } = {} THEN "never issued"
    ELSE IF { i \in OtpIds : otps[i].phone = phone /\ otps[i].usedAt = NULL } = {} THEN "consumed"
    ELSE "expired"

VerifyOTP_Burn(p, phone, code) ==
    /\ Free(p)
    /\ LET rows == GetActiveOTP(phone, now)
           req == [ Idle EXCEPT !.op = "verify", !.phone = phone, !.code = code, !.prior = seqOK[phone] ]
       IN IF rows = {}
          THEN /\ pc' = [ pc EXCEPT ![p] = "done" ]
               /\ loc' = [ loc EXCEPT ![p] = [ req EXCEPT !.status = "ErrInvalidOTP", !.cause = NoActiveCause(phone) ] ]
               /\ UNCHANGED otps
          ELSE \E i \in rows :
               IF otps[i].code # code
               THEN /\ pc' = [ pc EXCEPT ![p] = "done" ]
                    /\ loc' = [ loc EXCEPT ![p] = [ req EXCEPT !.status = "ErrInvalidOTP", !.cause = "mismatch" ] ]
                    /\ otps' = [ otps EXCEPT ![i].usedAt = now ]
               ELSE /\ pc' = [ pc EXCEPT ![p] = "mark" ]
                    /\ loc' = [ Joined(p, phone, loc) EXCEPT ![p] = [ req EXCEPT !.otpId = i ] ]
                    /\ UNCHANGED otps
    /\ UNCHANGED <<appEnv, stdlog, bucket, now, users, verified, superseded, seqOK>>

(* activeOTP, err := GetActiveOTP(phone); activeOTP.Code != code *)
VerifyOTP(p, phone, code) ==
    /\ Free(p)
    /\ LET rows == GetActiveOTP(phone, now)
           req == [ Idle EXCEPT !.op = "verify", !.phone = phone, !.code = code, !.prior = seqOK[phone] ]
       IN IF rows = {}
          THEN /\ pc' = [ pc EXCEPT ![p] = "done" ]
               /\ loc' = [ loc EXCEPT ![p] = [ req EXCEPT !.status = "ErrInvalidOTP", !.cause = NoActiveCause(phone) ] ]
          ELSE \E i \in rows :
               IF otps[i].code # code
               THEN /\ pc' = [ pc EXCEPT ![p] = "done" ]
                    /\ loc' = [ loc EXCEPT ![p] = [ req EXCEPT !.status = "ErrInvalidOTP", !.cause = "mismatch" ] ]
               ELSE /\ pc' = [ pc EXCEPT ![p] = "mark" ]
                    /\ loc' = [ Joined(p, phone, loc) EXCEPT ![p] = [ req EXCEPT !.otpId = i ] ]
    /\ UNCHANGED <<appEnv, stdlog, bucket, now, otps, users, verified, superseded, seqOK>>

(* UPDATE otps SET used_at = NOW() WHERE id = $1 *)
MarkOTPUsed(p) ==
    /\ pc[p] = "mark"
    /\ loc[p].otpId \notin LockedByOther(p)
    /\ otps' = [ otps EXCEPT ![loc[p].otpId].usedAt = now ]
    /\ pc' = [ pc EXCEPT ![p] = "exists" ]
    /\ UNCHANGED <<appEnv, stdlog, bucket, now, users, loc, verified, superseded, seqOK>>

(* a request that ends while a RequestCode for the phone is running is    *)
(* not followed by a quiet period                                         *)
SendRunning(p, phone) == \E q \in Procs \ {p} : InTx(q) /\ loc[q].phone = phone

VerifyOK(p) ==
    /\ verified' = verified \cup {loc[p].phone}
    /\ seqOK' = [ seqOK EXCEPT ![loc[p].phone] = IF SendRunning(p, loc[p].phone) THEN NoCode ELSE loc[p].code ]

UserExists_AlwaysNew(p) ==
    /\ pc[p] = "exists"
    /\ pc' = [ pc EXCEPT ![p] = "done" ]
    /\ loc' = [ loc EXCEPT ![p].status = "ok", ![p].isNewUser = TRUE ]
    /\ VerifyOK(p)
    /\ UNCHANGED <<appEnv, stdlog, bucket, now, otps, users, superseded>>

(* SELECT EXISTS(SELECT 1 FROM users WHERE phone = $1); new user: return  *)
UserExists(p) ==
    /\ pc[p] = "exists"
    /\ IF UserRows(loc[p].phone) = {}
       THEN /\ pc' = [ pc EXCEPT ![p] = "done" ]
            /\ loc' = [ loc EXCEPT ![p].status = "ok", ![p].isNewUser = TRUE ]
            /\ VerifyOK(p)
       ELSE /\ pc' = [ pc EXCEPT ![p] = "getuser" ]
            /\ UNCHANGED <<loc, verified, seqOK>>
    /\ UNCHANGED <<appEnv, stdlog, bucket, now, otps, users, superseded>>

(* u := GetByPhone(phone); token := issueToken(u.ID, u.Phone, u.AccountType) *)
VerifyOTP_GetByPhone(p) ==
    /\ pc[p] = "getuser"
    /\ pc' = [ pc EXCEPT ![p] = "done" ]
    /\ IF UserRows(loc[p].phone) = {}
       THEN /\ loc' = [ loc EXCEPT ![p].status = "error" ]
            /\ UNCHANGED <<verified, seqOK>>
       ELSE /\ \E i \in UserRows(loc[p].phone) :
                 loc' = [ loc EXCEPT ![p].status = "ok", ![p].isNewUser = FALSE, ![p].userId = users[i].id, ![p].token = issueToken(users[i].id, users[i].phone, users[i].accountType, now), ![p].issuedAt = now ]
            /\ VerifyOK(p)
    /\ UNCHANGED <<appEnv, stdlog, bucket, now, otps, users, superseded>>

(***************************************************************************)
(* Service.Register                                                        *)
(***************************************************************************)
Register_Requested(p, phone, accountType) ==
    /\ Free(p)
    /\ LET req == [ Idle EXCEPT !.op = "register", !.phone = phone, !.accountType = accountType ]
       IN IF UserRows(phone) # {}
          THEN /\ pc' = [ pc EXCEPT ![p] = "done" ]
               /\ \E i \in UserRows(phone) :
                     loc' = [ loc EXCEPT ![p] = [ req EXCEPT !.status = "ok", !.userId = users[i].id, !.token = issueToken(users[i].id, users[i].phone, accountType, now), !.issuedAt = now ] ]
          ELSE /\ pc' = [ pc EXCEPT ![p] = "create" ]
               /\ loc' = [ Joined(p, phone, loc) EXCEPT ![p] = req ]
    /\ UNCHANGED <<appEnv, stdlog, bucket, now, otps, users, verified, superseded, seqOK>>

(* existing, err := GetByPhone(phone); err == nil: token for existing *)
Register(p, phone, accountType) ==
    /\ Free(p)
    /\ LET req == [ Idle EXCEPT !.op = "register", !.phone = phone, !.accountType = accountType ]
       IN IF UserRows(phone) # {}
          THEN /\ pc' = [ pc EXCEPT ![p] = "done" ]
               /\ \E i \in UserRows(phone) :
                     loc' = [ loc EXCEPT ![p] = [ req EXCEPT !.status = "ok", !.userId = users[i].id, !.token = issueToken(users[i].id, users[i].phone, users[i].accountType, now), !.issuedAt = now ] ]
          ELSE /\ pc' = [ pc EXCEPT ![p] = "create" ]
               /\ loc' = [ Joined(p, phone, loc) EXCEPT ![p] = req ]
    /\ UNCHANGED <<appEnv, stdlog, bucket, now, otps, users, verified, superseded, seqOK>>

isUniqueViolation_Never(phone) == FALSE

(* the UNIQUE constraint on users.phone (SQLSTATE 23505) *)
isUniqueViolation(phone) == UserRows(phone) # {}

NewUser(p) == [ id |-> Len(users) + 1, phone |-> loc[p].phone, accountType |-> loc[p].accountType, username |-> Nil, fullName |-> Nil, bio |-> Nil, businessPhone |-> Nil, address |-> Nil, avatarKey |-> Nil ]

Create_Upsert(p) ==
    /\ pc[p] = "create"
    /\ pc' = [ pc EXCEPT ![p] = "done" ]
    /\ users' = IF isUniqueViolation(loc[p].phone) THEN [ i \in 1..Len(users) |-> IF users[i].phone = loc[p].phone THEN NewUser(p) ELSE users[i] ] ELSE Append(users, NewUser(p))
    /\ loc' = [ loc EXCEPT ![p].status = "ok", ![p].userId = NewUser(p).id, ![p].token = issueToken(NewUser(p).id, NewUser(p).phone, NewUser(p).accountType, now), ![p].issuedAt = now ]
    /\ UNCHANGED <<appEnv, stdlog, bucket, now, otps, verified, superseded, seqOK>>

(* INSERT INTO users (phone, account_type) ... RETURNING; issueToken *)
Create(p) ==
    /\ pc[p] = "create"
    /\ pc' = [ pc EXCEPT ![p] = "done" ]
    /\ IF isUniqueViolation(loc[p].phone)
       THEN /\ loc' = [ loc EXCEPT ![p].status = "error" ]
            /\ UNCHANGED users
       ELSE /\ users' = Append(users, NewUser(p))
            /\ loc' = [ loc EXCEPT ![p].status = "ok", ![p].userId = NewUser(p).id, ![p].token = issueToken(NewUser(p).id, NewUser(p).phone, NewUser(p).accountType, now), ![p].issuedAt = now ]
    /\ UNCHANGED <<appEnv, stdlog, bucket, now, otps, verified, superseded, seqOK>>

Next ==
    \/ \E d \in {1, otpTTL} : Tick(d)
    \/ \E p \in Procs, phone \in Phones, code \in generateOTP : SendOTP(p, phone, code)
    \/ \E p \in Procs : UpsertOTP_Scan(p)
    \/ \E p \in Procs : UpsertOTP_Invalidate(p)
    \/ \E p \in Procs : UpsertOTP_Commit(p)
    \/ \E p \in Procs, phone \in Phones, code \in generateOTP : VerifyOTP(p, phone, code)
    \/ \E p \in Procs : MarkOTPUsed(p)
    \/ \E p \in Procs : UserExists(p)
    \/ \E p \in Procs : VerifyOTP_GetByPhone(p)
    \/ \E p \in Procs, phone \in Phones, accountType \in RequestedTypes : Register(p, phone, accountType)
    \/ \E p \in Procs : Create(p)

Spec == Init /\ [][Next]_vars

(***************************************************************************)
(* The service after it has served one RequestCode at second 0: the table  *)
(* holds the passcode that request issued.                                 *)
(***************************************************************************)
InitIssued ==
    /\ now = 0
    /\ \E code \in generateOTP : otps = << [ id |-> 1, phone |-> 1, code |-> code, expiresAt |-> otpTTL, usedAt |-> NULL, createdAt |-> 0 ] >>
    /\ users = <<>>
    /\ pc = [ p \in Procs |-> "idle" ]
    /\ loc = [ p \in Procs |-> Idle ]
    /\ verified = {}
    /\ superseded = {}
    /\ seqOK = [ ph \in Phones |-> NoCode ]
    /\ bucket = {}
    /\ appEnv = "development"
    /\ stdlog = {}

(* the passcode requests alone: no account is ever registered *)
NextIssued ==
    \/ \E d \in {1, otpTTL} : Tick(d)
    \/ \E p \in Procs, phone \in Phones, code \in generateOTP : SendOTP(p, phone, code)
    \/ \E p \in Procs : UpsertOTP_Scan(p)
    \/ \E p \in Procs : UpsertOTP_Invalidate(p)
    \/ \E p \in Procs : UpsertOTP_Commit(p)
    \/ \E p \in Procs, phone \in Phones, code \in generateOTP : VerifyOTP(p, phone, code)
    \/ \E p \in Procs : MarkOTPUsed(p)
    \/ \E p \in Procs : UserExists(p)

SpecIssued == InitIssued /\ [][NextIssued]_vars

(***************************************************************************)
(* A protected request: RequireAuth, then Handler.GetMe.                   *)
(***************************************************************************)
(* the tokens the service has handed out *)
Issued == { loc[q].token : q \in Procs } \ {NoToken}

(* what a client can put together from a token it holds: the token, the    *)
(* token with a later exp under the old signature, the same re-signed with *)
(* a key of its own, and the same unsigned                                 *)
Prolonged(tk) == [ tk EXCEPT ![5] = tk[5] + tokenTTL ]

Presentable(tk) == { SignedString(tk),
                     [ alg |-> "HS256", claims |-> Prolonged(tk), sig |-> Sign(jwtSecret, "HS256", tk) ],
                     [ alg |-> "HS256", claims |-> Prolonged(tk), sig |-> Sign("guess", "HS256", Prolonged(tk)) ],
                     [ alg |-> "none", claims |-> Prolonged(tk), sig |-> <<>> ] }

Headers == {NoHeader} \cup { [ scheme |-> "Basic", cred |-> SignedString(tk) ] : tk \in Issued } \cup { [ scheme |-> "Bearer", cred |-> c ] : c \in UNION { Presentable(tk) : tk \in Issued } }

(* GetByID: SELECT ... FROM users WHERE id = $1 *)
GetByID(id) == { i \in 1..Len(users) : users[i].id = id }

GetMe(p, h) ==
    /\ Free(p)
    /\ pc' = [ pc EXCEPT ![p] = "done" ]
    /\ loc' = [ loc EXCEPT ![p] = [ Idle EXCEPT !.op = "getme", !.header = h,
                                                 !.status = IF ~RequireAuth(h, now) THEN "Unauthorized"
                                                            ELSE IF h.cred.claims[1] = NoUser THEN "Unauthorized"
                                                            ELSE IF GetByID(h.cred.claims[1]) = {} THEN "ErrNotFound" ELSE "ok",
                                                 !.userId = IF RequireAuth(h, now) THEN h.cred.claims[1] ELSE NoUser ] ]
    /\ UNCHANGED <<appEnv, stdlog, bucket, now, otps, users, verified, superseded, seqOK>>

(* registrations, protected requests and a clock that runs past the        *)
(* lifetime of a token                                                     *)
NextAuth ==
    \/ \E d \in {1, tokenTTL} : Tick(d)
    \/ \E p \in Procs, phone \in Phones, accountType \in RequestedTypes : Register(p, phone, accountType)
    \/ \E p \in Procs : Create(p)
    \/ \E p \in Procs, h \in Headers : GetMe(p, h)

SpecAuth == Init /\ [][NextAuth]_vars

(***************************************************************************)
(* Handler.UpdateProfile / Repository.UpdateProfile and                    *)
(* Handler.CheckUsername / Repository.UsernameExists, for requests that    *)
(* RequireAuth has let through with the identifier of an account.          *)
(***************************************************************************)
NumAccounts == 2

AccountIds == 1..NumAccounts

(* ^[a-zA-Z0-9_]+$ *)
WordChars == { "a", "b", "c", "d", "e", "f", "g", "h", "i", "j", "k", "l", "m", "n", "o", "p", "q", "r", "s", "t", "u", "v", "w", "x", "y", "z",
               "A", "B", "C", "D", "E", "F", "G", "H", "I", "J", "K", "L", "M", "N", "O", "P", "Q", "R", "S", "T", "U", "V", "W", "X", "Y", "Z",
               "0", "1", "2", "3", "4", "5", "6", "7", "8", "9", "_" }

usernameRegex(s) == Len(s) >= 1 /\ \A i \in 1..Len(s) : s[i] \in WordChars

maxUsernameLen == 50

maxBioLen == 160

Repeat(c, n) == [ i \in 1..n |-> c ]

(* the usernames and the request bodies that are tried *)
Usernames == { <<"a", "l", "i">>, <<"r", "_", "1">> }

BadUsernames == { <<"a", "-", "b">>, Repeat("a", maxUsernameLen + 1) }

ParamsSet == { [ NoParams EXCEPT !.username = Some(u) ] : u \in Usernames \cup BadUsernames \cup { <<>> } }
             \cup { NoParams,
                    [ NoParams EXCEPT !.bio = Some(<<"x">>) ],
                    [ NoParams EXCEPT !.bio = Some(Repeat("x", maxBioLen + 1)) ],
                    [ NoParams EXCEPT !.fullName = Some(<<"y">>), !.businessPhone = Some(<<"0", "2", "1">>), !.address = Some(<<"y">>) ],
                    [ username |-> Some(<<"a", "l", "i">>), fullName |-> Some(<<"z">>), bio |-> Some(<<"z">>), businessPhone |-> Some(<<"z">>), address |-> Some(<<"z">>) ] }

(* the accounts registered before, with phones of their own; the first has *)
(* uploaded an avatar                                                      *)
Account(i) == [ id |-> i, phone |-> i, accountType |-> IF i = 1 THEN "personal" ELSE "business", username |-> Nil, fullName |-> Nil, bio |-> Nil, businessPhone |-> Nil, address |-> Nil, avatarKey |-> IF i = 1 THEN Some(<< i, 0, ".png" >>) ELSE Nil ]

(* the object behind the avatar of an account registered before *)
Object(i) == [ key |-> Str(Account(i).avatarKey), contentType |-> "image/png", size |-> 2048 ]

InitProfile ==
    /\ now = 0
    /\ otps = <<>>
    /\ users = [ i \in AccountIds |-> Account(i) ]
    /\ pc = [ p \in Procs |-> "idle" ]
    /\ loc = [ p \in Procs |-> Idle ]
    /\ verified = {}
    /\ superseded = {}
    /\ seqOK = [ ph \in Phones |-> NoCode ]
    /\ bucket = { Object(i) : i \in { j \in AccountIds : Account(j).avatarKey # Nil } }
    /\ appEnv = "development"
    /\ stdlog = {}

(* the checks of Handler.UpdateProfile on the request body *)
ValidProfile(prm) ==
    /\ (prm.username # Nil /\ Str(prm.username) # <<>>) => (usernameRegex(Str(prm.username)) /\ Len(Str(prm.username)) <= maxUsernameLen)
    /\ (prm.bio # Nil) => Len(Str(prm.bio)) <= maxBioLen

COALESCE(new, old) == IF new # Nil THEN new ELSE old

UpdatedRow_Overwrite(row, prm) == [ row EXCEPT !.username = prm.username, !.fullName = prm.fullName, !.bio = prm.bio, !.businessPhone = prm.businessPhone, !.address = prm.address ]

(* UPDATE users SET username = COALESCE($2, username), ... WHERE id = $1 *)
UpdatedRow(row, prm) == [ row EXCEPT !.username = COALESCE(prm.username, row.username), !.fullName = COALESCE(prm.fullName, row.fullName), !.bio = COALESCE(prm.bio, row.bio), !.businessPhone = COALESCE(prm.businessPhone, row.businessPhone), !.address = COALESCE(prm.address, row.address) ]

usernameUnique_Absent(i, name) == FALSE

(* the unique constraint on users.username: another row holds the name *)
usernameUnique(i, name) == name # Nil /\ \E j \in 1..Len(users) : j # i /\ users[j].username = name

UpdateProfile(p, userID, prm) ==
    /\ Free(p)
    /\ pc' = [ pc EXCEPT ![p] = "done" ]
    /\ LET req == [ Idle EXCEPT !.op = "update", !.userId = userID, !.params = prm ]
       IN IF ~ValidProfile(prm)
          THEN /\ loc' = [ loc EXCEPT ![p] = [ req EXCEPT !.status = "BadRequest" ] ]
               /\ UNCHANGED users
          ELSE IF GetByID(userID) = {}
          THEN /\ loc' = [ loc EXCEPT ![p] = [ req EXCEPT !.status = "ErrNotFound" ] ]
               /\ UNCHANGED users
          ELSE \E i \in GetByID(userID) :
               IF usernameUnique(i, UpdatedRow(users[i], prm).username)
               THEN /\ loc' = [ loc EXCEPT ![p] = [ req EXCEPT !.status = "ErrUsernameTaken" ] ]
                    /\ UNCHANGED users
               ELSE /\ loc' = [ loc EXCEPT ![p] = [ req EXCEPT !.status = "ok" ] ]
                    /\ users' = [ users EXCEPT ![i] = UpdatedRow(users[i], prm) ]
    /\ UNCHANGED <<appEnv, stdlog, bucket, now, otps, verified, superseded, seqOK>>

(* SELECT EXISTS(SELECT 1 FROM users WHERE username = $1) *)
UsernameExists(name) == \E j \in 1..Len(users) : users[j].username = Some(name)

CheckUsername(p, name) ==
    /\ Free(p)
    /\ pc' = [ pc EXCEPT ![p] = "done" ]
    /\ LET req == [ Idle EXCEPT !.op = "check", !.params = [ NoParams EXCEPT !.username = Some(name) ] ]
       IN IF name = <<>> \/ ~usernameRegex(name) \/ Len(name) > maxUsernameLen
          THEN loc' = [ loc EXCEPT ![p] = [ req EXCEPT !.status = "BadRequest" ] ]
          ELSE loc' = [ loc EXCEPT ![p] = [ req EXCEPT !.status = "ok", !.available = ~UsernameExists(name) ] ]
    /\ UNCHANGED <<appEnv, stdlog, bucket, now, otps, users, verified, superseded, seqOK>>

(* Handler.UpdateProfile: the status of the response *)
UpdateProfileResponse(l) ==
    IF l.status = "BadRequest" THEN 400
    ELSE IF l.status = "ErrUsernameTaken" THEN 409
    ELSE IF l.status = "ErrNotFound" THEN 404
    ELSE IF l.status = "ok" THEN 200
    ELSE 500

NextProfile ==
    \/ \E p \in Procs, userID \in AccountIds, prm \in ParamsSet : UpdateProfile(p, userID, prm)
    \/ \E p \in Procs, name \in Usernames \cup BadUsernames \cup { <<>> } : CheckUsername(p, name)

SpecProfile == InitProfile /\ [][NextProfile]_vars

(***************************************************************************)
(* Registrations for phones with and without an account, among the         *)
(* profile updates of the accounts.                                        *)
(***************************************************************************)
RegPhones == 1..(NumAccounts + 1)

NextRegistered ==
    \/ \E p \in Procs, phone \in RegPhones, accountType \in RequestedTypes : Register(p, phone, accountType)
    \/ \E p \in Procs : Create(p)
    \/ \E p \in Procs, userID \in AccountIds, prm \in ParamsSet : UpdateProfile(p, userID, prm)

SpecRegistered == InitProfile /\ [][NextRegistered]_vars

(***************************************************************************)
(* Handler.UploadAvatar, for requests that RequireAuth has let through.    *)
(***************************************************************************)
maxAvatarBytes == 5242880

maxBodySlack == 1024

sniffLen == 512

allowedImageTypes == [ t \in {"image/jpeg", "image/png", "image/webp", "image/gif"} |->
                         IF t = "image/jpeg" THEN ".jpg" ELSE IF t = "image/png" THEN ".png" ELSE IF t = "image/webp" THEN ".webp" ELSE ".gif" ]

(* a Go map lookup: the zero value for a missing key *)
Ext(t) == IF t \in DOMAIN allowedImageTypes THEN allowedImageTypes[t] ELSE ""

HasPrefix(data, sig) == Len(data) >= Len(sig) /\ \A i \in 1..Len(sig) : data[i] = sig[i]

(* bytes that make http.DetectContentType take the data for binary *)
BinaryBytes == (0..8) \cup {11} \cup (14..26) \cup (28..31)

(* http.DetectContentType on the signatures that matter here; data is at   *)
(* most the first 512 bytes                                                *)
DetectContentType(data) ==
    IF HasPrefix(data, << 37, 80, 68, 70, 45 >>) THEN "application/pdf"
    ELSE IF HasPrefix(data, << 66, 77 >>) THEN "image/bmp"
    ELSE IF HasPrefix(data, << 71, 73, 70, 56, 55, 97 >>) \/ HasPrefix(data, << 71, 73, 70, 56, 57, 97 >>) THEN "image/gif"
    ELSE IF HasPrefix(data, << 82, 73, 70, 70 >>) /\ Len(data) >= 14 /\ SubSeq(data, 9, 14) = << 87, 69, 66, 80, 86, 80 >> THEN "image/webp"
    ELSE IF HasPrefix(data, << 137, 80, 78, 71, 13, 10, 26, 10 >>) THEN "image/png"
    ELSE IF HasPrefix(data, << 255, 216, 255 >>) THEN "image/jpeg"
    ELSE IF \E i \in 1..Len(data) : data[i] \in BinaryBytes THEN "application/octet-stream"
    ELSE "text/plain; charset=utf-8"

(* buf[:n] after file.Read(buf) with a buffer of 512 bytes *)
Sniffed(f) == IF Len(f.head) > sniffLen THEN SubSeq(f.head, 1, sniffLen) ELSE f.head

AllowedImage_Declared(f) == f.declared \in DOMAIN allowedImageTypes

(* ext, allowed := allowedImageTypes[contentType] *)
AllowedImage(f) == DetectContentType(Sniffed(f)) \in DOMAIN allowedImageTypes

(* http.MaxBytesReader(w, r.Body, maxAvatarBytes+1024) and               *)
(* r.ParseMultipartForm(maxAvatarBytes): the form is read whole; its      *)
(* argument only bounds what is kept in memory, larger files go to disk   *)
ParseMultipartForm(f) == f.size + f.overhead <= maxAvatarBytes + maxBodySlack

(* "{userID}/{16-byte-hex}{ext}"; the random bytes are those of request p *)
generateStorageKey(userID, p, ext) == << userID, p, ext >>

JPEG == << 255, 216, 255, 224 >>

PNG == << 137, 80, 78, 71, 13, 10, 26, 10 >>

PDF == << 37, 80, 68, 70, 45, 49 >>

BMP == << 66, 77, 54, 0 >>

(* the files that are tried *)
Files == { [ field |-> "avatar", name |-> "me.jpg", declared |-> "image/jpeg", head |-> JPEG, size |-> 2048, overhead |-> 256 ],
           [ field |-> "avatar", name |-> "notes.txt", declared |-> "text/plain", head |-> PNG, size |-> 2048, overhead |-> 256 ],
           [ field |-> "avatar", name |-> "me.jpg", declared |-> "image/jpeg", head |-> PDF, size |-> 2048, overhead |-> 256 ],
           [ field |-> "avatar", name |-> "me.png", declared |-> "image/png", head |-> BMP, size |-> 2048, overhead |-> 256 ],
           [ field |-> "avatar", name |-> "big.jpg", declared |-> "image/jpeg", head |-> JPEG, size |-> maxAvatarBytes + 16, overhead |-> 256 ],
           [ field |-> "avatar", name |-> "huge.jpg", declared |-> "image/jpeg", head |-> JPEG, size |-> maxAvatarBytes + 2048, overhead |-> 256 ],
           [ field |-> "photo", name |-> "me.jpg", declared |-> "image/jpeg", head |-> JPEG, size |-> 2048, overhead |-> 256 ] }

(* the handler up to the call of the object store *)
UploadAvatar(p, userID, f) ==
    /\ Free(p)
    /\ LET req == [ Idle EXCEPT !.op = "avatar", !.userId = userID, !.file = f ]
       IN IF ~ParseMultipartForm(f) \/ f.field # "avatar" \/ ~AllowedImage(f)
          THEN /\ pc' = [ pc EXCEPT ![p] = "done" ]
               /\ loc' = [ loc EXCEPT ![p] = [ req EXCEPT !.status = "BadRequest" ] ]
          ELSE /\ pc' = [ pc EXCEPT ![p] = "upload" ]
               /\ loc' = [ loc EXCEPT ![p] = [ req EXCEPT !.key = generateStorageKey(userID, p, Ext(DetectContentType(Sniffed(f)))) ] ]
    /\ UNCHANGED <<appEnv, stdlog, bucket, now, otps, users, verified, superseded, seqOK>>

(* h.store.Upload(ctx, key, fullReader, -1, contentType): PutObject *)
Upload(p) ==
    /\ pc[p] = "upload"
    /\ bucket' = { o \in bucket : o.key # loc[p].key } \cup { [ key |-> loc[p].key, contentType |-> DetectContentType(Sniffed(loc[p].file)), size |-> loc[p].file.size ] }
    /\ pc' = [ pc EXCEPT ![p] = "savekey" ]
    /\ UNCHANGED <<appEnv, stdlog, now, otps, users, loc, verified, superseded, seqOK>>

(* UPDATE users SET avatar_key = $2 WHERE id = $1 RETURNING ... *)
UpdateAvatarKey(p) ==
    /\ pc[p] = "savekey"
    /\ pc' = [ pc EXCEPT ![p] = "done" ]
    /\ IF GetByID(loc[p].userId) = {}
       THEN /\ loc' = [ loc EXCEPT ![p].status = "error" ]
            /\ UNCHANGED users
       ELSE /\ loc' = [ loc EXCEPT ![p].status = "ok" ]
            /\ users' = [ i \in 1..Len(users) |-> IF i \in GetByID(loc[p].userId) THEN [ users[i] EXCEPT !.avatarKey = Some(loc[p].key) ] ELSE users[i] ]
    /\ UNCHANGED <<appEnv, stdlog, bucket, now, otps, verified, superseded, seqOK>>

(* Handler.UploadAvatar: the status of the response *)
UploadAvatarResponse(l) ==
    IF l.status = "BadRequest" THEN 400
    ELSE IF l.status = "ok" THEN 200
    ELSE 500

NextAvatar ==
    \/ \E p \in Procs, userID \in AccountIds, f \in Files : UploadAvatar(p, userID, f)
    \/ \E p \in Procs : Upload(p)
    \/ \E p \in Procs : UpdateAvatarKey(p)

SpecAvatar == InitProfile /\ [][NextAvatar]_vars

(***************************************************************************)
(* The protected routes: RequireAuth, then the handler, which takes the    *)
(* account identifier from the request context and from nowhere else.      *)
(***************************************************************************)
(* userID, _ := claims["sub"].(string): a missing subject is the empty one *)
Subject(h) == h.cred.claims[1]

HasUser_Any(h) == TRUE

(* userID, ok := r.Context().Value(middleware.UserIDKey).(string);         *)
(* !ok || userID == "" is answered 401 by each handler                     *)
HasUser(h) == Subject(h) # NoUser

(* response.Unauthorized, by the middleware or by the handler *)
Unauthorized(p, op, h) ==
    /\ Free(p)
    /\ pc' = [ pc EXCEPT ![p] = "done" ]
    /\ loc' = [ loc EXCEPT ![p] = [ Idle EXCEPT !.op = op, !.header = h, !.status = "Unauthorized" ] ]
    /\ UNCHANGED <<appEnv, stdlog, bucket, now, otps, users, verified, superseded, seqOK>>

(* PATCH /users/me *)
Me_UpdateProfile(p, h, prm) ==
    IF RequireAuth(h, now) /\ HasUser(h) THEN UpdateProfile(p, Subject(h), prm) ELSE Unauthorized(p, "update", h)

(* POST /users/me/avatar *)
Me_UploadAvatar(p, h, f) ==
    IF RequireAuth(h, now) /\ HasUser(h) THEN UploadAvatar(p, Subject(h), f) ELSE Unauthorized(p, "avatar", h)

(* the token of an account registered before *)
TokenOf(i) == issueToken(Account(i).id, Account(i).phone, Account(i).accountType, 0)

(* a token without subject under the server key *)
NoSubject == issueToken(NoUser, 1, "personal", 0)

(* what the clients present: nothing, the token of an account, that token  *)
(* re-signed with a key of the client's own, and a token without subject   *)
MeHeaders == {NoHeader} \cup { [ scheme |-> "Bearer", cred |-> SignedString(TokenOf(i)) ] : i \in AccountIds }
             \cup { [ scheme |-> "Bearer", cred |-> [ alg |-> "HS256", claims |-> TokenOf(i), sig |-> Sign("guess", "HS256", TokenOf(i)) ] ] : i \in {1} }
             \cup { [ scheme |-> "Bearer", cred |-> SignedString(NoSubject) ] }

MeParams == { [ NoParams EXCEPT !.fullName = Some(<<"y">>) ], [ NoParams EXCEPT !.username = Some(<<"a", "l", "i">>) ] }

MeFiles == { f \in Files : f.name = "me.jpg" /\ f.field = "avatar" }

NextMe ==
    \/ \E p \in Procs, h \in MeHeaders : GetMe(p, h)
    \/ \E p \in Procs, h \in MeHeaders, prm \in MeParams : Me_UpdateProfile(p, h, prm)
    \/ \E p \in Procs, h \in MeHeaders, f \in MeFiles : Me_UploadAvatar(p, h, f)
    \/ \E p \in Procs : Upload(p)
    \/ \E p \in Procs : UpdateAvatarKey(p)

SpecMe == InitProfile /\ [][NextMe]_vars

(***************************************************************************)
(* auth.Handler: validation of the request body, then the service.        *)
(***************************************************************************)
Digits == 0..9

(* ^09[0-9]{9}$ *)
iranPhoneRegex(s) == Len(s) = 11 /\ s[1] = 0 /\ s[2] = 9 /\ \A i \in 3..11 : s[i] \in Digits

(* the number of the phone with index ph, and the index of a number *)
PhoneStr(ph) == << 0, 9, 1, 2, 0, 0, 0, 0, 0, 0, ph >>

PhoneOf(s) == CHOOSE ph \in Phones : PhoneStr(ph) = s

(* letters 'a'..'e' *)
Letters == << 49, 50, 51, 52, 53 >>

(* the request bodies that are tried *)
RawPhones == { PhoneStr(ph) : ph \in Phones } \cup { << 0, 9, 1, 2, 0, 0, 0, 0, 0, 1 >>, << 0, 8, 1, 2, 0, 0, 0, 0, 0, 0, 1 >> }

RawCodes == generateOTP \cup { Letters, << 0, 0, 0, 1 >> }

RawTypes == RequestedTypes \cup { "admin" }

validTypes == {"personal", "children", "business"}

(* response.BadRequest before the service is called *)
Reject(p, op, raw) ==
    /\ Free(p)
    /\ pc' = [ pc EXCEPT ![p] = "done" ]
    /\ loc' = [ loc EXCEPT ![p] = [ Idle EXCEPT !.op = op, !.status = "BadRequest", !.raw = raw ] ]
    /\ UNCHANGED <<appEnv, stdlog, bucket, now, otps, users, verified, superseded, seqOK>>

Handler_SendOTP(p, rawPhone, code) ==
    IF ~iranPhoneRegex(rawPhone)
    THEN Reject(p, "send", [ NoRaw EXCEPT !.phone = rawPhone ])
    ELSE SendOTP(p, PhoneOf(rawPhone), code)

(* len(req.Code) != 5 *)
Handler_VerifyOTP(p, rawPhone, rawCode) ==
    IF ~iranPhoneRegex(rawPhone) \/ Len(rawCode) # 5
    THEN Reject(p, "verify", [ NoRaw EXCEPT !.phone = rawPhone, !.code = rawCode ])
    ELSE VerifyOTP(p, PhoneOf(rawPhone), rawCode)

Handler_Register(p, rawPhone, rawType) ==
    IF ~iranPhoneRegex(rawPhone) \/ rawType \notin validTypes
    THEN Reject(p, "register", [ NoRaw EXCEPT !.phone = rawPhone, !.accountType = rawType ])
    ELSE Register(p, PhoneOf(rawPhone), rawType)

(* the public routes with request bodies of any content, at one instant *)
NextHandler ==
    \/ \E p \in Procs, rawPhone \in RawPhones, code \in generateOTP : Handler_SendOTP(p, rawPhone, code)
    \/ \E p \in Procs : UpsertOTP_Scan(p)
    \/ \E p \in Procs : UpsertOTP_Invalidate(p)
    \/ \E p \in Procs : UpsertOTP_Commit(p)
    \/ \E p \in Procs, rawPhone \in RawPhones, rawCode \in RawCodes : Handler_VerifyOTP(p, rawPhone, rawCode)
    \/ \E p \in Procs : MarkOTPUsed(p)
    \/ \E p \in Procs : UserExists(p)
    \/ \E p \in Procs : VerifyOTP_GetByPhone(p)
    \/ \E p \in Procs, rawPhone \in RawPhones, rawType \in RawTypes : Handler_Register(p, rawPhone, rawType)
    \/ \E p \in Procs : Create(p)

SpecHandler == Init /\ [][NextHandler]_vars

(***************************************************************************)
(* One client at a time: a request starts when no other is running.  The   *)
(* run starts with an empty store or after one RequestCode.                *)
(***************************************************************************)
Quiet == \A q \in Procs : ~InFlight(q)

(* Handler.GetMe: the status of the response *)
GetMeResponse(l) ==
    IF l.status = "Unauthorized" THEN 401
    ELSE IF l.status = "ErrNotFound" THEN 404
    ELSE IF l.status = "ok" THEN 200
    ELSE 500

InitFlow == Init \/ InitIssued

NextFlow ==
    \/ \E d \in {1, otpTTL} : Tick(d)
    \/ \E p \in Procs, phone \in Phones, code \in generateOTP : Quiet /\ SendOTP(p, phone, code)
    \/ \E p \in Procs : UpsertOTP_Scan(p)
    \/ \E p \in Procs : UpsertOTP_Invalidate(p)
    \/ \E p \in Procs : UpsertOTP_Commit(p)
    \/ \E p \in Procs, phone \in Phones, code \in generateOTP : Quiet /\ VerifyOTP(p, phone, code)
    \/ \E p \in Procs : MarkOTPUsed(p)
    \/ \E p \in Procs : UserExists(p)
    \/ \E p \in Procs : VerifyOTP_GetByPhone(p)
    \/ \E p \in Procs, phone \in Phones, accountType \in RequestedTypes : Quiet /\ Register(p, phone, accountType)
    \/ \E p \in Procs : Create(p)
    \/ \E p \in Procs, h \in Headers : Quiet /\ GetMe(p, h)

SpecFlow == InitFlow /\ [][NextFlow]_vars

(***************************************************************************)
(* Codes over the whole range of rand.Int(rand.Reader, big.NewInt(100000)) *)
(* issued and submitted to the verify endpoint, one request after another. *)
(***************************************************************************)
(* the least and the greatest value, the values around each power of ten   *)
(* and one with five different digits                                      *)
Draws == { 0, 9, 10, 99, 100, 999, 1000, 9999, 10000, 12345, 99999 }

NextCodes ==
    \/ \E p \in Procs, rawPhone \in { PhoneStr(ph) : ph \in Phones }, n \in Draws : Quiet /\ Handler_SendOTP(p, rawPhone, Sprintf05d(n))
    \/ \E p \in Procs : UpsertOTP_Scan(p)
    \/ \E p \in Procs : UpsertOTP_Invalidate(p)
    \/ \E p \in Procs : UpsertOTP_Commit(p)
    \/ \E p \in Procs, rawPhone \in { PhoneStr(ph) : ph \in Phones }, n \in Draws : Quiet /\ Handler_VerifyOTP(p, rawPhone, Sprintf05d(n))
    \/ \E p \in Procs : MarkOTPUsed(p)
    \/ \E p \in Procs : UserExists(p)

SpecCodes == Init /\ [][NextCodes]_vars

(***************************************************************************)
(* Requests for several phones at one instant of the clock.                *)
(***************************************************************************)
PhonesAB == 1..(NumPhones + 1)

InitIndep ==
    /\ now = 0
    /\ otps = <<>>
    /\ users = <<>>
    /\ pc = [ p \in Procs |-> "idle" ]
    /\ loc = [ p \in Procs |-> Idle ]
    /\ verified = {}
    /\ superseded = {}
    /\ seqOK = [ ph \in PhonesAB |-> NoCode ]
    /\ bucket = {}
    /\ appEnv = "development"
    /\ stdlog = {}

NextIndep ==
    \/ \E p \in Procs, phone \in PhonesAB, code \in generateOTP : SendOTP(p, phone, code)
    \/ \E p \in Procs : UpsertOTP_Scan(p)
    \/ \E p \in Procs : UpsertOTP_Invalidate(p)
    \/ \E p \in Procs : UpsertOTP_Commit(p)
    \/ \E p \in Procs, phone \in PhonesAB, code \in generateOTP : VerifyOTP(p, phone, code)
    \/ \E p \in Procs : MarkOTPUsed(p)
    \/ \E p \in Procs : UserExists(p)
    \/ \E p \in Procs : VerifyOTP_GetByPhone(p)
    \/ \E p \in Procs, phone \in PhonesAB, accountType \in RequestedTypes : Register(p, phone, accountType)
    \/ \E p \in Procs : Create(p)

SpecIndep == InitIndep /\ [][NextIndep]_vars

(***************************************************************************)
(* Storage faults.  Any store call may fail (connection lost, statement    *)
(* cancelled by the request context); the code that follows the failed     *)
(* call is the error branch of its caller.                                 *)
(***************************************************************************)
MaxFaults == 1

MayFault == Cardinality({ q \in Procs : loc[q].faulted }) < MaxFaults

(* r.db.Begin fails: UpsertOTP returns "begin tx" *)
SendOTP_BeginFault(p, phone, code) ==
    /\ Free(p)
    /\ MayFault
    /\ pc' = [ pc EXCEPT ![p] = "done" ]
    /\ loc' = [ Requested(p, phone, loc) EXCEPT ![p] = [ Idle EXCEPT !.op = "send", !.phone = phone, !.code = code, !.expiresAt = now + otpTTL, !.status = "error", !.faulted = TRUE ] ]
    /\ seqOK' = [ seqOK EXCEPT ![phone] = NoCode ]
    /\ UNCHANGED <<appEnv, stdlog, bucket, now, otps, users, verified, superseded>>

(* the UPDATE, the INSERT or the Commit fails or is cancelled: the        *)
(* deferred tx.Rollback undoes what the transaction has done              *)
UpsertOTP_Rollback(p) ==
    /\ InTx(p)
    /\ MayFault
    /\ pc' = [ pc EXCEPT ![p] = "done" ]
    /\ loc' = [ loc EXCEPT ![p].status = "error", ![p].faulted = TRUE, ![p].cand = {} ]
    /\ UNCHANGED <<appEnv, stdlog, bucket, now, otps, users, verified, superseded, seqOK>>

(* GetActiveOTP fails with an error other than pgx.ErrNoRows: VerifyOTP   *)
(* returns ErrInvalidOTP for every error of the lookup                    *)
GetActiveOTP_Fault(p, phone, code) ==
    /\ Free(p)
    /\ MayFault
    /\ pc' = [ pc EXCEPT ![p] = "done" ]
    /\ loc' = [ loc EXCEPT ![p] = [ Idle EXCEPT !.op = "verify", !.phone = phone, !.code = code, !.prior = seqOK[phone], !.status = "ErrInvalidOTP", !.cause = "fault", !.faulted = TRUE ] ]
    /\ UNCHANGED <<appEnv, stdlog, bucket, now, otps, users, verified, superseded, seqOK>>

(* MarkOTPUsed fails: "mark otp used" *)
MarkOTPUsed_Fault(p) ==
    /\ pc[p] = "mark"
    /\ MayFault
    /\ pc' = [ pc EXCEPT ![p] = "done" ]
    /\ loc' = [ loc EXCEPT ![p].status = "error", ![p].faulted = TRUE ]
    /\ UNCHANGED <<appEnv, stdlog, bucket, now, otps, users, verified, superseded, seqOK>>

UserExists_Fault_Undo(p) ==
    /\ pc[p] = "exists"
    /\ MayFault
    /\ pc' = [ pc EXCEPT ![p] = "done" ]
    /\ loc' = [ loc EXCEPT ![p].status = "error", ![p].faulted = TRUE ]
    /\ otps' = [ otps EXCEPT ![loc[p].otpId].usedAt = NULL ]
    /\ UNCHANGED <<appEnv, stdlog, bucket, now, users, verified, superseded, seqOK>>

(* UserExists fails: "check user existence" *)
UserExists_Fault(p) ==
    /\ pc[p] = "exists"
    /\ MayFault
    /\ pc' = [ pc EXCEPT ![p] = "done" ]
    /\ loc' = [ loc EXCEPT ![p].status = "error", ![p].faulted = TRUE ]
    /\ UNCHANGED <<appEnv, stdlog, bucket, now, otps, users, verified, superseded, seqOK>>

(* GetByPhone fails in VerifyOTP: "get existing user" *)
VerifyOTP_GetByPhoneFault(p) ==
    /\ pc[p] = "getuser"
    /\ MayFault
    /\ pc' = [ pc EXCEPT ![p] = "done" ]
    /\ loc' = [ loc EXCEPT ![p].status = "error", ![p].faulted = TRUE ]
    /\ UNCHANGED <<appEnv, stdlog, bucket, now, otps, users, verified, superseded, seqOK>>

(* GetByPhone fails in Register: every error of the lookup, not only      *)
(* ErrNotFound, leads to Create                                           *)
Register_GetByPhoneFault(p, phone, accountType) ==
    /\ Free(p)
    /\ MayFault
    /\ pc' = [ pc EXCEPT ![p] = "create" ]
    /\ loc' = [ Joined(p, phone, loc) EXCEPT ![p] = [ Idle EXCEPT !.op = "register", !.phone = phone, !.accountType = accountType, !.faulted = TRUE ] ]
    /\ UNCHANGED <<appEnv, stdlog, bucket, now, otps, users, verified, superseded, seqOK>>

(* the INSERT of Create fails with an error other than 23505 *)
Create_Fault(p) ==
    /\ pc[p] = "create"
    /\ MayFault
    /\ pc' = [ pc EXCEPT ![p] = "done" ]
    /\ loc' = [ loc EXCEPT ![p].status = "error", ![p].faulted = TRUE ]
    /\ UNCHANGED <<appEnv, stdlog, bucket, now, otps, users, verified, superseded, seqOK>>

(* the requests at one instant of the clock, with a store that may fail *)
NextFault ==
    \/ \E p \in Procs, phone \in Phones, code \in generateOTP : SendOTP(p, phone, code)
    \/ \E p \in Procs : UpsertOTP_Scan(p)
    \/ \E p \in Procs : UpsertOTP_Invalidate(p)
    \/ \E p \in Procs : UpsertOTP_Commit(p)
    \/ \E p \in Procs, phone \in Phones, code \in generateOTP : VerifyOTP(p, phone, code)
    \/ \E p \in Procs : MarkOTPUsed(p)
    \/ \E p \in Procs : UserExists(p)
    \/ \E p \in Procs : VerifyOTP_GetByPhone(p)
    \/ \E p \in Procs, phone \in Phones, accountType \in RequestedTypes : Register(p, phone, accountType)
    \/ \E p \in Procs : Create(p)
    \/ \E p \in Procs, phone \in Phones, code \in generateOTP : SendOTP_BeginFault(p, phone, code)
    \/ \E p \in Procs : UpsertOTP_Rollback(p)
    \/ \E p \in Procs, phone \in Phones, code \in generateOTP : GetActiveOTP_Fault(p, phone, code)
    \/ \E p \in Procs : MarkOTPUsed_Fault(p)
    \/ \E p \in Procs : UserExists_Fault(p)
    \/ \E p \in Procs : VerifyOTP_GetByPhoneFault(p)
    \/ \E p \in Procs, phone \in Phones, accountType \in RequestedTypes : Register_GetByPhoneFault(p, phone, accountType)
    \/ \E p \in Procs : Create_Fault(p)

SpecFault == Init /\ [][NextFault]_vars

(***************************************************************************)
(* Avatar uploads with an object store and a database that may fail.       *)
(***************************************************************************)
(* h.store.Upload returns an error: response.InternalError *)
Upload_Fault(p) ==
    /\ pc[p] = "upload"
    /\ MayFault
    /\ pc' = [ pc EXCEPT ![p] = "done" ]
    /\ loc' = [ loc EXCEPT ![p].status = "error", ![p].faulted = TRUE ]
    /\ UNCHANGED <<appEnv, stdlog, bucket, now, otps, users, verified, superseded, seqOK>>

(* h.svc.UpdateAvatarKey returns an error other than ErrNotFound:          *)
(* response.InternalError, and the handler returns                         *)
UpdateAvatarKey_Fault(p) ==
    /\ pc[p] = "savekey"
    /\ MayFault
    /\ pc' = [ pc EXCEPT ![p] = "done" ]
    /\ loc' = [ loc EXCEPT ![p].status = "error", ![p].faulted = TRUE ]
    /\ UNCHANGED <<appEnv, stdlog, bucket, now, otps, users, verified, superseded, seqOK>>

NextAvatarFault ==
    \/ \E p \in Procs, userID \in AccountIds, f \in Files : UploadAvatar(p, userID, f)
    \/ \E p \in Procs : Upload(p)
    \/ \E p \in Procs : UpdateAvatarKey(p)
    \/ \E p \in Procs : Upload_Fault(p)
    \/ \E p \in Procs : UpdateAvatarKey_Fault(p)

SpecAvatarFault == InitProfile /\ [][NextAvatarFault]_vars

(***************************************************************************)
(* RequestCode under each setting of APP_ENV, with a store that may fail.  *)
(***************************************************************************)
AppEnvs == { "production", "development", "staging" }

InitLog ==
    /\ now = 0
    /\ otps = <<>>
    /\ users = <<>>
    /\ pc = [ p \in Procs |-> "idle" ]
    /\ loc = [ p \in Procs |-> Idle ]
    /\ verified = {}
    /\ superseded = {}
    /\ seqOK = [ ph \in Phones |-> NoCode ]
    /\ bucket = {}
    /\ appEnv \in AppEnvs
    /\ stdlog = {}

NextLog ==
    \/ \E p \in Procs, phone \in Phones, code \in generateOTP : SendOTP(p, phone, code)
    \/ \E p \in Procs : UpsertOTP_Scan(p)
    \/ \E p \in Procs : UpsertOTP_Invalidate(p)
    \/ \E p \in Procs : UpsertOTP_Commit(p)
    \/ \E p \in Procs, phone \in Phones, code \in generateOTP : SendOTP_BeginFault(p, phone, code)
    \/ \E p \in Procs : UpsertOTP_Rollback(p)

SpecLog == InitLog /\ [][NextLog]_vars

(***************************************************************************)
(* Outcomes of the requests.                                               *)
(***************************************************************************)
VerifyOTPResponse_Distinct(l) ==
    IF l.status = "ErrInvalidOTP" THEN [ status |-> 400, error |-> IF l.cause = "mismatch" THEN "invalid OTP code" ELSE "OTP not found or expired" ]
    ELSE IF l.status = "error" THEN [ status |-> 500, error |-> "internal server error" ]
    ELSE [ status |-> 200, error |-> "" ]

(* Handler.SendOTP / Handler.ResendOTP *)
SendOTPResponse(l) ==
    IF l.status = "error" THEN [ status |-> 500, error |-> "internal server error" ]
    ELSE [ status |-> 200, error |-> "" ]

(* Handler.Register *)
RegisterResponse(l) ==
    IF l.status = "error" THEN [ status |-> 500, error |-> "internal server error" ]
    ELSE [ status |-> 201, error |-> "" ]

(* Handler.VerifyOTP: the status and the error message of the response *)
VerifyOTPResponse(l) ==
    IF l.status = "ErrInvalidOTP" THEN [ status |-> 400, error |-> "invalid or expired OTP" ]
    ELSE IF l.status = "error" THEN [ status |-> 500, error |-> "internal server error" ]
    ELSE [ status |-> 200, error |-> "" ]

Returned(p, op) == pc[p] = "done" /\ loc[p].op = op

Succeeded(p, op) == Returned(p, op) /\ loc[p].status = "ok"

(***************************************************************************)
(* C1: in every reachable state, whatever the interleaving of concurrent   *)
(* RequestCode calls, each phone has at most one active passcode (one that *)
(* is unconsumed and whose expiry is later than now).                      *)
(***************************************************************************)
C1_AtMostOneActive == \A phone \in Phones : Cardinality(ActiveOTPs(phone, now)) <= 1

(***************************************************************************)
(* C2: single use - no two VerifyCode calls succeed against the same       *)
(* passcode record.                                                        *)
(***************************************************************************)
C2_SingleUse == \A p, q \in Procs : (p # q /\ Succeeded(p, "verify") /\ Succeeded(q, "verify")) => loc[p].otpId # loc[q].otpId

(***************************************************************************)
(* C3: a Register call returns success (an account and a token) for a      *)
(* phone only if a VerifyCode call for that phone has succeeded before.    *)
(***************************************************************************)
C3_RegisterOnlyAfterVerify == \A p \in Procs : Succeeded(p, "register") => loc[p].phone \in verified

(***************************************************************************)
(* C4: no VerifyCode succeeds against a passcode that a RequestCode which  *)
(* has returned superseded (a row is superseded before any later update of *)
(* it, so such a VerifyCode consumed the passcode after the resend         *)
(* returned).                                                              *)
(***************************************************************************)
C4_SupersededNeverVerifies == \A p \in Procs : Succeeded(p, "verify") => loc[p].otpId \notin superseded

(***************************************************************************)
(* C5: when a RequestCode that ran with no other request for its phone in  *)
(* progress returns (within the lifetime of the passcode it issued),       *)
(* GetActive for the phone returns exactly the new passcode and every      *)
(* earlier passcode of the phone is consumed.                              *)
(***************************************************************************)
C5_RequestCodeReplaces == [][ \A p \in Procs : (pc[p] = "commit" /\ pc'[p] = "done" /\ loc[p].alone /\ now' < loc[p].expiresAt) => ( /\ GetActiveOTP(loc[p].phone, now)' = { loc'[p].otpId } /\ otps'[loc'[p].otpId].code = loc[p].code /\ \A i \in OtpIds : otps[i].phone = loc[p].phone => otps'[i].usedAt # NULL ) ]_vars

C5_Witness == \E p \in Procs : Succeeded(p, "send") /\ loc[p].alone /\ GetActiveOTP(loc[p].phone, now) = { loc[p].otpId } /\ \E i \in superseded : i < loc[p].otpId /\ otps[i].phone = loc[p].phone /\ otps[i].usedAt # NULL

(***************************************************************************)
(* C6: a VerifyCode that follows a successful VerifyCode for the same      *)
(* phone with the same code, with no RequestCode for the phone in between, *)
(* does not succeed.                                                       *)
(***************************************************************************)
C6_SecondVerifyFails == \A p \in Procs : Succeeded(p, "verify") => loc[p].prior # loc[p].code

(***************************************************************************)
(* C7: all successful Register calls for a phone return the same account   *)
(* identifier, and the phone has exactly one account row.                  *)
(***************************************************************************)
C7_RegisterIdempotent == \A p, q \in Procs : (Succeeded(p, "register") /\ Succeeded(q, "register") /\ loc[p].phone = loc[q].phone) => ( loc[p].userId = loc[q].userId /\ Cardinality(UserRows(loc[p].phone)) = 1 /\ \A i \in UserRows(loc[p].phone) : users[i].id = loc[p].userId )

C7_Witness == \E p, q \in Procs : p # q /\ Succeeded(p, "register") /\ Succeeded(q, "register") /\ loc[p].phone = loc[q].phone /\ loc[p].accountType # loc[q].accountType /\ \E r \in Procs : Returned(r, "register") /\ loc[r].status = "error"

C9_RegisterNeverFails == \A p \in Procs : Returned(p, "register") => loc[p].status = "ok"

(***************************************************************************)
(* C10: no two accounts share a phone number (or an identifier), and every *)
(* step keeps every account with its identifier and phone.                 *)
(***************************************************************************)
C10_AccountsUniqueAndStable ==
    [][ LET UniquePhones(u) == \A i, j \in 1..Len(u) : (u[i].phone = u[j].phone \/ u[i].id = u[j].id) => i = j
        IN
                                   /\ UniquePhones(users') /\ \A i \in 1..Len(users) : \E j \in 1..Len(users') : users'[j].id = users[i].id /\ users'[j].phone = users[i].phone ]_vars

C10_Witness == users # <<>> /\ \E p, q \in Procs : Succeeded(p, "register") /\ Returned(q, "register") /\ loc[q].status = "error" /\ loc[p].phone = loc[q].phone

(***************************************************************************)
(* C11: a VerifyCode that succeeds returns a token if and only if the      *)
(* phone has an account when the call looks it up: with an account it      *)
(* returns isNewUser = false, the account's identifier and a token for     *)
(* that identifier, phone and category; without one it returns isNewUser = *)
(* true, no token and no identifier; and no step of a VerifyCode changes   *)
(* the accounts.                                                           *)
(***************************************************************************)
C11_TokenIffAccount == [][ \A p \in Procs : /\ (loc[p].op = "verify" /\ pc'[p] # pc[p]) => users' = users
                                            /\ (pc[p] \in {"exists", "getuser"} /\ pc'[p] = "done" /\ loc'[p].status = "ok") =>
                                                 IF UserRows(loc[p].phone) # {}
                                                 THEN /\ loc'[p].isNewUser = FALSE
                                                      /\ loc'[p].token # NoToken
                                                      /\ \E i \in UserRows(loc[p].phone) : /\ loc'[p].userId = users[i].id
                                                                                           /\ loc'[p].token[1] = users[i].id
                                                                                           /\ loc'[p].token[2] = users[i].phone
                                                                                           /\ loc'[p].token[3] = users[i].accountType
                                                 ELSE /\ loc'[p].isNewUser = TRUE
                                                      /\ loc'[p].token = NoToken
                                                      /\ loc'[p].userId = NoUser ]_vars

C11_Witness == \E p \in Procs : Succeeded(p, "verify") /\ loc[p].isNewUser = FALSE /\ loc[p].token # NoToken /\ \E i \in UserRows(loc[p].phone) : users[i].id = loc[p].userId

(***************************************************************************)
(* C12: the VerifyCode calls that fail because no passcode was ever issued *)
(* for the phone, because the passcode has expired, because it is consumed *)
(* or because the submitted code does not match all get the same response: *)
(* status 400 with the one InvalidCode message.                            *)
(***************************************************************************)
C12_FailuresIndistinguishable ==
    LET FailureCauses == {"never issued", "expired", "consumed", "mismatch"}
    IN
                                 \A p, q \in Procs : (Returned(p, "verify") /\ Returned(q, "verify") /\ loc[p].cause \in FailureCauses /\ loc[q].cause \in FailureCauses) => ( VerifyOTPResponse(loc[p]) = VerifyOTPResponse(loc[q]) /\ VerifyOTPResponse(loc[p]) = [ status |-> 400, error |-> "invalid or expired OTP" ] /\ loc[p].status = "ErrInvalidOTP" /\ loc[p].token = NoToken )

C12_Witness == \E p, q \in Procs : Returned(p, "verify") /\ Returned(q, "verify") /\ loc[p].cause = "expired" /\ loc[q].cause = "mismatch"

(***************************************************************************)
(* C13: a RequestCode, VerifyCode or Register during which a store call    *)
(* failed is answered with the generic failure (500, generic message),     *)
(* never with InvalidCode (400) and never with a success.                  *)
(***************************************************************************)
C13_FaultIsGenericFailure ==
    LET Response(l) == IF l.op = "send" THEN SendOTPResponse(l) ELSE IF l.op = "verify" THEN VerifyOTPResponse(l) ELSE RegisterResponse(l)
    IN
                             \A p \in Procs : (pc[p] = "done" /\ loc[p].faulted) => Response(loc[p]) = [ status |-> 500, error |-> "internal server error" ]

(***************************************************************************)
(* C14: IssueOrReplace is all-or-nothing.  No step of a RequestCode other  *)
(* than its successful commit changes the committed passcode records, in   *)
(* particular not the step in which it fails or is cancelled (at begin,    *)
(* invalidate, insert or commit); and every step in which a passcode       *)
(* becomes consumed, other than a MarkConsumed of a VerifyCode, inserts    *)
(* the new passcode of the phone in the same step.                         *)
(***************************************************************************)
C14_AllOrNothing ==
    [][ LET SendStep(p) == (InTx(p) /\ pc'[p] # pc[p]) \/ (pc[p] = "idle" /\ pc'[p] # "idle" /\ loc'[p].op = "send")
            Consumes(i) == otps[i].usedAt = NULL /\ otps'[i].usedAt # NULL
        IN
                        /\ \A p \in Procs : (SendStep(p) /\ ~(pc'[p] = "done" /\ loc'[p].status = "ok")) => otps' = otps
                        /\ \A i \in OtpIds : (Consumes(i) /\ ~(\E p \in Procs : pc[p] = "mark" /\ pc'[p] = "exists")) => (Len(otps') = Len(otps) + 1 /\ otps'[Len(otps')].phone = otps[i].phone /\ otps'[Len(otps')].usedAt = NULL) ]_vars

(* a RequestCode rolled back after its UPDATE had invalidated a passcode   *)
(* that is unconsumed in the table                                         *)
C14_Witness == \E p \in Procs : Returned(p, "send") /\ loc[p].status = "error" /\ loc[p].marked # {} /\ \A i \in loc[p].marked : otps[i].usedAt = NULL

(***************************************************************************)
(* C15: the lookup of a VerifyCode returns a passcode of the phone that is *)
(* unconsumed, has expiry strictly greater than now and was created no     *)
(* earlier than any other such passcode; it reports NotFound exactly when  *)
(* the phone has no such passcode (none issued, all consumed, all expired).*)
(***************************************************************************)
Qualifies(i, phone) == otps[i].phone = phone /\ otps[i].usedAt = NULL /\ otps[i].expiresAt > now

LookupStep(p) == pc[p] = "idle" /\ pc'[p] # "idle" /\ loc'[p].op = "verify" /\ ~loc'[p].faulted

C15_GetActiveLatest ==
    [][ LET Latest(i, phone) == Qualifies(i, phone) /\ \A j \in OtpIds : Qualifies(j, phone) => otps[j].createdAt <= otps[i].createdAt
            NotFoundCauses == {"never issued", "consumed", "expired"}
        IN
                           \A p \in Procs : LookupStep(p) =>
                              /\ (loc'[p].cause \in NotFoundCauses) <=> ~(\E i \in OtpIds : Qualifies(i, loc'[p].phone))
                              /\ (loc'[p].cause \in NotFoundCauses) => (pc'[p] = "done" /\ loc'[p].status = "ErrInvalidOTP")
                              /\ (loc'[p].cause = "never issued") <=> ~(\E i \in OtpIds : otps[i].phone = loc'[p].phone)
                              /\ (loc'[p].cause = "mismatch") => (\E i \in OtpIds : Latest(i, loc'[p].phone) /\ otps[i].code # loc'[p].code)
                              /\ (pc'[p] = "mark") => (Latest(loc'[p].otpId, loc'[p].phone) /\ otps[loc'[p].otpId].code = loc'[p].code) ]_vars

(* a VerifyCode whose lookup had two qualifying passcodes of different     *)
(* creation times to choose from and returned the later one                *)
C15_Witness == \E p \in Procs : pc[p] = "mark" /\ \E j \in OtpIds : Qualifies(j, loc[p].phone) /\ otps[j].createdAt < otps[loc[p].otpId].createdAt /\ otps[j].code # otps[loc[p].otpId].code

(***************************************************************************)
(* C16: a passcode is issued with expiry = issue instant + 2 minutes (the  *)
(* RequestCode computes it when it starts and the row it inserts carries   *)
(* it), no VerifyCode that starts at or after the expiry of a passcode     *)
(* gets that passcode from its lookup, and the passing of time by itself   *)
(* changes no passcode record.                                             *)
(***************************************************************************)
C16_ExpiryEnforcedByLookup == [][ /\ \A p \in Procs : (pc[p] = "idle" /\ pc'[p] = "scan") => loc'[p].expiresAt = now + 120
                                  /\ \A p \in Procs : (pc[p] = "commit" /\ pc'[p] = "done" /\ loc'[p].status = "ok") => (Len(otps') = Len(otps) + 1 /\ otps'[Len(otps')].expiresAt = loc[p].expiresAt)
                                  /\ \A p \in Procs : (LookupStep(p) /\ loc'[p].otpId # NoOtp) => now < otps[loc'[p].otpId].expiresAt
                                  /\ (now' # now) => otps' = otps ]_vars

(* a VerifyCode that started at the expiry instant of an unconsumed        *)
(* passcode with the code of that passcode, and failed as expired          *)
C16_Witness == \E p \in Procs : Returned(p, "verify") /\ loc[p].cause = "expired" /\ \E i \in OtpIds : otps[i].phone = loc[p].phone /\ otps[i].code = loc[p].code /\ otps[i].usedAt = NULL /\ otps[i].expiresAt = now

(***************************************************************************)
(* C17: MarkConsumed applied to a passcode that is already consumed leaves *)
(* every passcode record, the consumed timestamp of that one included,     *)
(* unchanged.                                                              *)
(***************************************************************************)
C17_MarkConsumedIdempotent == [][ \A p \in Procs : (pc[p] = "mark" /\ pc'[p] = "exists" /\ otps[loc[p].otpId].usedAt # NULL) => otps' = otps ]_vars

(***************************************************************************)
(* C18: a protected request reaches its handler exactly when its header is *)
(* a Bearer credential with an HMAC method, a signature that verifies      *)
(* under the server key and an expiresAt later than now; a token the       *)
(* service issued is accepted at every instant before issuedAt + 30 days   *)
(* and answered Unauthorized from that instant on, whatever has happened   *)
(* in between.                                                             *)
(***************************************************************************)
C18_ValidIffSignedAndUnexpired ==
    [][ LET ProtectedStep(p) == pc[p] = "idle" /\ pc'[p] = "done" /\ loc'[p].op = "getme"
            ReachedHandler(l) == l.status # "Unauthorized"
        IN
                                      \A p \in Procs : ProtectedStep(p) =>
        LET h == loc'[p].header IN
        /\ ReachedHandler(loc'[p]) <=> (h.scheme = "Bearer" /\ h.cred.alg \in {"HS256", "HS384", "HS512"} /\ h.cred.sig = << jwtSecret, h.cred.alg, h.cred.claims >> /\ h.cred.claims[5] > now)
        /\ \A q \in Procs : (loc[q].token # NoToken /\ h = [ scheme |-> "Bearer", cred |-> SignedString(loc[q].token) ]) => (ReachedHandler(loc'[p]) <=> now < loc[q].issuedAt + 2592000) ]_vars

(* the same issued token presented twice: accepted before its expiry,      *)
(* Unauthorized at its expiry instant                                      *)
C18_Witness == \E p, q, r \in Procs : /\ Succeeded(r, "register")
                                      /\ Returned(p, "getme") /\ Returned(q, "getme")
                                      /\ loc[p].header = [ scheme |-> "Bearer", cred |-> SignedString(loc[r].token) ]
                                      /\ loc[q].header = loc[p].header
                                      /\ loc[p].status = "ok" /\ loc[q].status = "Unauthorized"
                                      /\ now = loc[r].issuedAt + tokenTTL

(***************************************************************************)
(* C19: UpdateProfile changes only the fields present in the request.      *)
(* Every profile field absent from the request keeps its stored value, a   *)
(* present field of a successful update has the requested value, no other  *)
(* account changes, and identifier, phone, account category and avatar     *)
(* reference of every account stay as they are.                            *)
(***************************************************************************)
UpdateStep(p) == pc[p] = "idle" /\ pc'[p] = "done" /\ loc'[p].op = "update"

C19_UpdateOnlyPresentFields == [][ \A p \in Procs : UpdateStep(p) =>
        /\ Len(users') = Len(users)
        /\ \A i \in 1..Len(users) :
              /\ users'[i].id = users[i].id /\ users'[i].phone = users[i].phone /\ users'[i].accountType = users[i].accountType /\ users'[i].avatarKey = users[i].avatarKey
              /\ \A f \in {"username", "fullName", "bio", "businessPhone", "address"} :
                    /\ (loc'[p].params[f] = {} \/ users[i].id # loc'[p].userId) => users'[i][f] = users[i][f]
                    /\ (loc'[p].params[f] # {} /\ users[i].id = loc'[p].userId /\ loc'[p].status = "ok") => users'[i][f] = loc'[p].params[f] ]_vars

(* an update with only the bio has succeeded on an account that has a      *)
(* username and an avatar, and both are still there                        *)
C19_Witness == \E p \in Procs : /\ Succeeded(p, "update")
                                /\ loc[p].params.bio # Nil /\ loc[p].params.username = Nil
                                /\ users[loc[p].userId].bio = loc[p].params.bio
                                /\ users[loc[p].userId].username # Nil
                                /\ users[loc[p].userId].avatarKey # Nil

(***************************************************************************)
(* C20: no two accounts have the same set username in any reachable state, *)
(* and a valid UpdateProfile that would give an account a username another *)
(* account holds is answered UsernameConflict (409) and changes no         *)
(* account, whatever ran just before (another update, a UsernameExists     *)
(* that reported the name free).                                           *)
(***************************************************************************)
UniqueUsernames == \A i, j \in 1..Len(users) : (i # j /\ users[i].username # Nil) => users[i].username # users[j].username

C20_UsernamesUnique ==
    []UniqueUsernames /\ [][ LET HeldByOther(id, name) == \E j \in 1..Len(users) : users[j].id # id /\ users[j].username = name
                             IN
                                                \A p \in Procs : (UpdateStep(p) /\ loc'[p].status # "BadRequest" /\ loc'[p].params.username # Nil /\ HeldByOther(loc'[p].userId, loc'[p].params.username)) => (loc'[p].status = "ErrUsernameTaken" /\ UpdateProfileResponse(loc'[p]) = 409 /\ users' = users) ]_vars

(* the name was reported free, one account took it, and the update of      *)
(* another account to the same name was answered with the conflict         *)
C20_Witness == \E p, q, r \in Procs : /\ Returned(p, "check") /\ loc[p].available
                                      /\ Succeeded(q, "update") /\ loc[q].params.username = loc[p].params.username
                                      /\ Returned(r, "update") /\ loc[r].status = "ErrUsernameTaken" /\ loc[r].params.username = loc[p].params.username
                                      /\ loc[r].userId # loc[q].userId
                                      /\ p < q /\ p < r

(***************************************************************************)
(* C21: an avatar upload whose first 512 bytes sniff to a type other than  *)
(* JPEG, PNG, WebP or GIF is answered 400 whatever its file name and       *)
(* declared content type; the request ends there, nothing is put into the  *)
(* object store and no account changes.                                    *)
(***************************************************************************)
AvatarStart(p) == pc[p] = "idle" /\ pc'[p] # "idle" /\ loc'[p].op = "avatar"

C21_UnsupportedTypeRejected == [][ \A p \in Procs : (AvatarStart(p) /\ DetectContentType(Sniffed(loc'[p].file)) \notin {"image/jpeg", "image/png", "image/webp", "image/gif"}) =>
        (pc'[p] = "done" /\ UploadAvatarResponse(loc'[p]) = 400 /\ loc'[p].key = NoKey /\ bucket' = bucket /\ users' = users) ]_vars

(* a PDF named me.jpg and declared image/jpeg was answered 400 *)
C21_Witness == \E p \in Procs : Returned(p, "avatar") /\ loc[p].status = "BadRequest" /\ loc[p].file.declared = "image/jpeg" /\ loc[p].file.name = "me.jpg" /\ DetectContentType(loc[p].file.head) = "application/pdf" /\ loc[p].file.field = "avatar"

(***************************************************************************)
(* C22: every avatar upload whose file is larger than 5 MB (5 * 2^20       *)
(* bytes) is answered 400 and stores nothing.                              *)
(***************************************************************************)
C22_OversizeRejected == [][ \A p \in Procs : (AvatarStart(p) /\ loc'[p].file.size > 5 * (2 ^ 20)) => (pc'[p] = "done" /\ UploadAvatarResponse(loc'[p]) = 400) ]_vars

(***************************************************************************)
(* C23: a request whose phone is not 11 digits starting with 09, whose     *)
(* code is not exactly 5 decimal digits or whose accountType is not one of *)
(* personal, children, business is answered 400 by the validation, before  *)
(* the service and with it any store operation is called.  Equivalently:   *)
(* what reaches the service has a valid phone, a code of five decimal      *)
(* digits and a valid account type, and a rejected request changes nothing.*)
(***************************************************************************)
FiveDigits(c) == Len(c) = 5 /\ \A i \in 1..5 : c[i] \in 0..9

C23_ValidatedBeforeCore ==
    [][ LET HandlerStep(p) == pc[p] = "idle" /\ pc'[p] # "idle" /\ loc'[p].op \in {"send", "verify", "register"}
        IN
                               \A p \in Procs : HandlerStep(p) =>
        IF loc'[p].status = "BadRequest"
        THEN otps' = otps /\ users' = users
        ELSE /\ loc'[p].phone \in Phones
             /\ (loc'[p].op = "verify") => FiveDigits(loc'[p].code)
             /\ (loc'[p].op = "register") => loc'[p].accountType \in {"personal", "children", "business"} ]_vars

(***************************************************************************)
(* C24: the end-to-end flow of one client, link by link.  A RequestCode    *)
(* succeeds with 200.  A VerifyCode that follows it with the issued code   *)
(* before the expiry is not refused, and for a phone without an account it *)
(* ends with 200, isNewUser = true and no token.  A Register that follows  *)
(* such a verify ends with 201, a token and the user.  A GET /users/me     *)
(* that follows with that token ends with 200 and the account whose        *)
(* identifier is the one Register returned.                                *)
(***************************************************************************)
Ends(p, op) == pc[p] # "done" /\ pc'[p] = "done" /\ loc'[p].op = op

Starts(p, op) == pc[p] = "idle" /\ pc'[p] # "idle" /\ loc'[p].op = op

C24_EndToEndFlow == [][ /\ \A p \in Procs : Ends(p, "send") => (loc'[p].status = "ok" /\ SendOTPResponse(loc'[p]).status = 200)
                        /\ \A q \in Procs \ {1} : (Starts(q, "verify") /\ Succeeded(q - 1, "send") /\ loc'[q].phone = loc[q - 1].phone /\ loc'[q].code = loc[q - 1].code /\ now < loc[q - 1].expiresAt) => pc'[q] = "mark"
                        /\ \A q \in Procs : (Ends(q, "verify") /\ pc[q] # "idle" /\ UserRows(loc[q].phone) = {}) => (loc'[q].status = "ok" /\ VerifyOTPResponse(loc'[q]).status = 200 /\ loc'[q].isNewUser /\ loc'[q].token = NoToken)
                        /\ \A r \in Procs \ {1} : (Ends(r, "register") /\ Succeeded(r - 1, "verify") /\ loc[r - 1].isNewUser /\ loc[r - 1].phone = loc'[r].phone) =>
                              /\ loc'[r].status = "ok" /\ RegisterResponse(loc'[r]).status = 201
                              /\ loc'[r].token # NoToken /\ loc'[r].token[1] = loc'[r].userId
                              /\ \E i \in 1..Len(users') : users'[i].id = loc'[r].userId /\ users'[i].phone = loc'[r].phone /\ users'[i].accountType = loc'[r].accountType
                        /\ \A g \in Procs \ {1} : (Ends(g, "getme") /\ Succeeded(g - 1, "register") /\ loc'[g].header = [ scheme |-> "Bearer", cred |-> SignedString(loc[g - 1].token) ] /\ now < loc[g - 1].issuedAt + tokenTTL) =>
                              /\ GetMeResponse(loc'[g]) = 200
                              /\ loc'[g].userId = loc[g - 1].userId
                              /\ \E i \in 1..Len(users) : users[i].id = loc'[g].userId /\ users[i].phone = loc[g - 1].phone ]_vars

(* verify of the issued code (new user, no token), then register, then     *)
(* GET /users/me with the token of the register: the same account          *)
C24_Witness == \E q, r, g \in Procs : /\ r = q + 1 /\ g = r + 1
                                      /\ Succeeded(q, "verify") /\ loc[q].isNewUser /\ loc[q].token = NoToken
                                      /\ Succeeded(r, "register") /\ loc[r].phone = loc[q].phone /\ loc[r].token # NoToken
                                      /\ Succeeded(g, "getme") /\ loc[g].header = [ scheme |-> "Bearer", cred |-> SignedString(loc[r].token) ]
                                      /\ loc[g].userId = loc[r].userId

(***************************************************************************)
(* C25: requests for one phone are independent of those for another.  A    *)
(* step of a request for phone A changes no passcode record and no account *)
(* of another phone B and nothing of B's requests; a transaction locks     *)
(* passcode records of its own phone only; and what a VerifyCode or a      *)
(* Register for B answers is determined by the records of B alone.         *)
(***************************************************************************)
LocksOwnPhone == \A p \in Procs : InFlight(p) => /\ \A i \in loc[p].marked \cup loc[p].cand : otps[i].phone = loc[p].phone
                                                  /\ loc[p].otpId # NoOtp => otps[loc[p].otpId].phone = loc[p].phone

C25_PhonesIndependent ==
    []LocksOwnPhone /\ [][ LET OnlyPhone(tbl, ph) == { i \in 1..Len(tbl) : tbl[i].phone = ph }
                               FrameOf(p) == \A b \in PhonesAB \ { loc'[p].phone } :
                                                /\ Len(otps') >= Len(otps) /\ Len(users') >= Len(users)
                                                /\ \A i \in OnlyPhone(otps, b) : otps'[i] = otps[i]
                                                /\ OnlyPhone(otps', b) = OnlyPhone(otps, b)
                                                /\ \A i \in OnlyPhone(users, b) : users'[i] = users[i]
                                                /\ OnlyPhone(users', b) = OnlyPhone(users, b)
                                                /\ \A q \in Procs : loc[q].phone = b => (pc'[q] = pc[q] /\ loc'[q] = loc[q])
                               OwnActive(b) == { i \in OnlyPhone(otps, b) : otps[i].usedAt = NULL /\ otps[i].expiresAt > now }
                               OwnLatest(b) == { i \in OwnActive(b) : \A j \in OwnActive(b) : otps[j].createdAt <= otps[i].createdAt }
                               OutcomeOf(q) == LET b == loc'[q].phone IN
                                               /\ Starts(q, "verify") => /\ pc'[q] = "mark" => (loc'[q].otpId \in OwnLatest(b) /\ otps[loc'[q].otpId].code = loc'[q].code)
                                                                         /\ pc'[q] = "done" => (OwnLatest(b) = {} \/ \E i \in OwnLatest(b) : otps[i].code # loc'[q].code)
                                               /\ Starts(q, "register") => (pc'[q] = "create" <=> OnlyPhone(users, b) = {})
                                               /\ (Ends(q, "register") /\ pc[q] = "create") => (loc'[q].status = "ok" <=> OnlyPhone(users, b) = {})
                                               /\ (Ends(q, "verify") /\ pc[q] = "exists") => (loc'[q].isNewUser /\ OnlyPhone(users, b) = {})
                                               /\ (pc[q] = "exists" /\ pc'[q] = "getuser") => OnlyPhone(users, b) # {}
                           IN
                                                \A p \in Procs : pc'[p] # pc[p] => (FrameOf(p) /\ OutcomeOf(p)) ]_vars

(* a passcode of one phone was verified after a RequestCode for another    *)
(* phone had run in between, and the other phone's passcode is still active*)
C25_Witness == \E p, q, r \in Procs : /\ p < q /\ q < r
                                      /\ Succeeded(p, "send") /\ Succeeded(q, "send") /\ Succeeded(r, "verify")
                                      /\ loc[q].phone # loc[p].phone /\ loc[r].phone = loc[p].phone
                                      /\ loc[r].otpId = loc[p].otpId
                                      /\ otps[loc[q].otpId].usedAt = NULL

(***************************************************************************)
(* C26: passcode records are never removed and consumption is permanent -  *)
(* every step keeps every record, with its identifier, phone, code, expiry *)
(* and creation time, and a record whose used_at is set has it set, and is *)
(* not active, after the step.                                             *)
(***************************************************************************)
C26_RecordsKeptAndConsumedForGood ==
    [][ LET SameRecord(r, s) == r.id = s.id /\ r.phone = s.phone /\ r.code = s.code /\ r.expiresAt = s.expiresAt /\ r.createdAt = s.createdAt
        IN
                                         /\ Len(otps') >= Len(otps) /\ \A i \in OtpIds : ( /\ SameRecord(otps'[i], otps[i]) /\ (otps[i].usedAt # NULL => (otps'[i].usedAt # NULL /\ i \notin ActiveOTPs(otps[i].phone, now)')) ) ]_vars

C26_Witness == \E i, j \in OtpIds : i \in superseded /\ otps[i].usedAt # NULL /\ j \notin superseded /\ otps[j].usedAt # NULL /\ \E p \in Procs : Succeeded(p, "verify") /\ loc[p].otpId = j

(***************************************************************************)
(* C27: the passcode a VerifyCode has matched is consumed by the step that *)
(* follows the match and is consumed in every state of the steps after it; *)
(* when the existence check or the account load then fails, the call       *)
(* answers with an internal error and no token and the passcode is still   *)
(* consumed; and no VerifyCode matches a consumed passcode.                *)
(***************************************************************************)
AfterConsumption(p) == loc[p].op = "verify" /\ pc[p] \in {"exists", "getuser"}

C27_ConsumedWhateverFollows == [](\A p \in Procs : AfterConsumption(p) => otps[loc[p].otpId].usedAt # NULL) /\ [][ \A p \in Procs : ( /\ ((pc[p] = "mark" /\ pc'[p] = "exists") => otps'[loc[p].otpId].usedAt # NULL) /\ ((AfterConsumption(p) /\ pc'[p] = "done" /\ loc'[p].status # "ok") => ( /\ loc'[p].token = NoToken /\ VerifyOTPResponse(loc'[p]).status = 500 /\ otps'[loc[p].otpId].usedAt # NULL )) /\ ((Starts(p, "verify") /\ pc'[p] = "mark") => otps[loc'[p].otpId].usedAt = NULL) ) ]_vars

C27_Witness == \E p, q \in Procs : p < q /\ Returned(p, "verify") /\ loc[p].status = "error" /\ loc[p].faulted /\ loc[p].otpId # NoOtp /\ otps[loc[p].otpId].usedAt # NULL /\ Returned(q, "verify") /\ loc[q].code = loc[p].code /\ loc[q].phone = loc[p].phone /\ loc[q].status = "ErrInvalidOTP" /\ loc[q].cause = "consumed"

(***************************************************************************)
(* C28: no step of a Register for a phone that has an account changes the  *)
(* accounts, and the Register that finds the account answers with the      *)
(* identifier of the stored account and a token whose subject, phone and   *)
(* category are the stored ones, whatever category it requested.           *)
(***************************************************************************)
C28_RegisterLeavesAccount ==
    [][ LET RegisterStep(p) == pc'[p] # pc[p] /\ loc'[p].op = "register" /\ UserRows(loc'[p].phone) # {}
        IN
                                 \A p \in Procs : RegisterStep(p) => ( /\ users' = users /\ (Starts(p, "register") => ( /\ pc'[p] = "done" /\ loc'[p].status = "ok" /\ \E i \in UserRows(loc'[p].phone) : ( /\ loc'[p].userId = users[i].id /\ loc'[p].token[1] = users[i].id /\ loc'[p].token[2] = users[i].phone /\ loc'[p].token[3] = users[i].accountType ) )) ) ]_vars

C28_Witness == \E p \in Procs, i \in 1..Len(users) : Succeeded(p, "register") /\ users[i].phone = loc[p].phone /\ loc[p].accountType # users[i].accountType /\ loc[p].token[3] = users[i].accountType /\ users[i].fullName # Nil /\ \E q \in Procs : q < p /\ Succeeded(q, "update") /\ loc[q].userId = users[i].id

(***************************************************************************)
(* C29: a VerifyCode that fails with InvalidCode leaves the passcode       *)
(* records and the accounts as they are, so the lookup of the phone gives  *)
(* after it what it gave before; and a VerifyCode that submits the code of *)
(* the one active passcode of its phone matches it and, with a fault-free  *)
(* store, succeeds, however many attempts have failed before.              *)
(***************************************************************************)
C29_FailedVerifyChangesNothing ==
    [][ LET FailsInvalid(p) == Starts(p, "verify") /\ pc'[p] = "done" /\ loc'[p].status = "ErrInvalidOTP"
        IN
                                      \A p \in Procs : ( /\ (FailsInvalid(p) => ( /\ otps' = otps /\ users' = users /\ \A ph \in Phones : GetActiveOTP(ph, now)' = GetActiveOTP(ph, now) )) /\ ((Starts(p, "verify") /\ \E i \in OtpIds : GetActiveOTP(loc'[p].phone, now) = {i} /\ otps[i].code = loc'[p].code) => (pc'[p] = "mark" /\ GetActiveOTP(loc'[p].phone, now) = { loc'[p].otpId })) /\ ((Ends(p, "verify") /\ pc[p] # "idle") => loc'[p].status = "ok") ) ]_vars

C29_Witness == \E p, q, r \in Procs : p < q /\ q < r /\ Returned(p, "verify") /\ loc[p].cause = "mismatch" /\ Returned(q, "verify") /\ loc[q].cause = "mismatch" /\ Succeeded(r, "verify") /\ loc[r].otpId = 1 /\ otps[1].createdAt < otps[1].usedAt

(***************************************************************************)
(* C30: with a fault-free store, a VerifyCode that starts while no other   *)
(* request for its phone is running, submits the code of the passcode that *)
(* the most recent successful RequestCode for the phone issued, before the *)
(* expiry of that passcode and with that passcode unconsumed, matches that *)
(* passcode; and every VerifyCode that has matched ends in success.        *)
(* Records are appended when their RequestCode returns, so the passcode of *)
(* the most recent successful RequestCode is the last record of the phone. *)
(***************************************************************************)
C30_FreshCodeVerifies ==
    [][ LET RecordsOf(phone) == { i \in OtpIds : otps[i].phone = phone }
            LastIssued(phone) == CHOOSE i \in RecordsOf(phone) : \A j \in RecordsOf(phone) : j <= i
            FreshVerify(q, phone) == /\ Starts(q, "verify") /\ loc'[q].phone = phone /\ Others(q, phone) = {} /\ RecordsOf(phone) # {} /\ loc'[q].code = otps[LastIssued(phone)].code /\ now < otps[LastIssued(phone)].expiresAt /\ otps[LastIssued(phone)].usedAt = NULL
        IN
                             \A q \in Procs : ( /\ (\A phone \in Phones : FreshVerify(q, phone) => (pc'[q] = "mark" /\ otps[loc'[q].otpId].code = loc'[q].code)) /\ ((Ends(q, "verify") /\ pc[q] # "idle") => loc'[q].status = "ok") ) ]_vars

(***************************************************************************)
(* C31: a protected request (get profile, update profile, avatar upload)   *)
(* that is let through works on the account whose identifier is the        *)
(* subject of its token: the account it answers about or changes, and the  *)
(* objects it stores, are those of that identifier, and no other account   *)
(* changes in any of its steps.  A request without a valid token, or with  *)
(* a token whose subject is empty, is answered 401 in one step that leaves *)
(* accounts and object store as they are.                                  *)
(***************************************************************************)
C31_OnlyOwnAccount ==
    [][ LET OnlyAccount(id) == /\ Len(users') = Len(users) /\ \A i \in 1..Len(users) : users'[i] # users[i] => users[i].id = id
            OnlyObjectsOf(id) == \A o \in (bucket' \ bucket) \cup (bucket \ bucket') : o.key[1] = id
            AsSubject(p, h) ==
                IF h.scheme = "Bearer" /\ Parse(h.cred, now) /\ h.cred.claims[1] # NoUser
                THEN loc'[p].userId = h.cred.claims[1] /\ loc'[p].status # "Unauthorized" /\ OnlyAccount(h.cred.claims[1]) /\ OnlyObjectsOf(h.cred.claims[1])
                ELSE pc'[p] = "done" /\ loc'[p].status = "Unauthorized" /\ users' = users /\ bucket' = bucket
        IN
                          \A p \in Procs : ( /\ (\A h \in MeHeaders : ( /\ (GetMe(p, h) => (AsSubject(p, h) /\ GetMeResponse(loc'[p]) = IF loc'[p].status = "Unauthorized" THEN 401 ELSE 200)) /\ (\A prm \in MeParams : Me_UpdateProfile(p, h, prm) => AsSubject(p, h)) /\ (\A f \in MeFiles : Me_UploadAvatar(p, h, f) => AsSubject(p, h)) )) /\ ((pc[p] \in {"upload", "savekey"} /\ pc'[p] # pc[p]) => (loc[p].userId # NoUser /\ loc'[p].userId = loc[p].userId /\ OnlyAccount(loc[p].userId) /\ OnlyObjectsOf(loc[p].userId))) ) ]_vars

C31_Witness == \E p, q, r \in Procs : /\ Succeeded(p, "update") /\ loc[p].userId = 2 /\ users[2] # Account(2)
                                      /\ Succeeded(q, "avatar") /\ loc[q].userId = 2 /\ users[2].avatarKey = Some(loc[q].key)
                                      /\ users[1] = Account(1) /\ Object(1) \in bucket
                                      /\ Returned(r, "avatar") /\ loc[r].status = "Unauthorized" /\ loc[r].header = [ scheme |-> "Bearer", cred |-> SignedString(NoSubject) ]

(***************************************************************************)
(* C32: avatar upload is all-or-nothing - when an avatar upload has ended  *)
(* with a response other than 200, the object store holds no object of     *)
(* this request and no account refers to one, and the step that ends it    *)
(* changes neither the object store nor the accounts.                      *)
(***************************************************************************)
C32_AvatarAllOrNothing == [](\A p \in Procs : (Returned(p, "avatar") /\ UploadAvatarResponse(loc[p]) # 200) => ( /\ \A o \in bucket : o.key # loc[p].key /\ \A i \in 1..Len(users) : users[i].avatarKey # Some(loc[p].key) )) /\ [][ \A p \in Procs : (Ends(p, "avatar") /\ UploadAvatarResponse(loc'[p]) # 200) => (bucket' = bucket /\ users' = users) ]_vars

(***************************************************************************)
(* C33: every code RequestCode produces and stores is a string of exactly  *)
(* 5 decimal digits, the zero-padded decimal form of an integer of         *)
(* [0, 99999]; a verify request that submits the code of a stored passcode *)
(* passes the format validation of the verify endpoint, and when that      *)
(* passcode is the active one of the phone the comparison matches it.      *)
(***************************************************************************)
C33_CodesAreFiveDigits ==
    [](LET Atoi(c) == c[1] * 10000 + c[2] * 1000 + c[3] * 100 + c[4] * 10 + c[5]
           Issuable(c) == FiveDigits(c) /\ Atoi(c) \in 0..99999 /\ Sprintf05d(Atoi(c)) = c
       IN
                             /\ \A i \in OtpIds : Issuable(otps[i].code) /\ \A p \in Procs : loc[p].op = "send" => Issuable(loc[p].code)) /\ [][ \A p \in Procs : (Starts(p, "verify") /\ \E i \in OtpIds : otps[i].code = loc'[p].code) => ( /\ loc'[p].status # "BadRequest" /\ \A ph \in Phones : \A i \in OtpIds : (loc'[p].phone = ph /\ GetActiveOTP(ph, now) = {i} /\ otps[i].code = loc'[p].code) => (pc'[p] = "mark" /\ loc'[p].otpId = i) ) ]_vars

C33_Witness == \E p, q \in Procs : Succeeded(p, "verify") /\ loc[p].code = << 0, 0, 0, 1, 0 >> /\ otps[loc[p].otpId].code = << 0, 0, 0, 1, 0 >> /\ Succeeded(q, "send") /\ loc[q].code = << 9, 9, 9, 9, 9 >>

(***************************************************************************)
(* C34: the value of an issued code is written to the log if and only if   *)
(* the environment is not production - outside production the line of      *)
(* every RequestCode that has succeeded carries its code; in production no *)
(* line of the log carries a code; and only the step in which a            *)
(* RequestCode succeeds writes to the log.                                 *)
(***************************************************************************)
C34_CodeLoggedIffNotProduction == [](/\ (appEnv # "production" => \A p \in Procs : Succeeded(p, "send") => [ phone |-> loc[p].phone, code |-> loc[p].code ] \in stdlog) /\ (appEnv = "production" => \A line \in stdlog : line.code = NoCode) /\ \A line \in stdlog : \E p \in Procs : Succeeded(p, "send") /\ loc[p].phone = line.phone /\ line.code \in {NoCode, loc[p].code}) /\ [][ (stdlog' # stdlog) => \E p \in Procs : Ends(p, "send") /\ loc'[p].status = "ok" ]_vars

C34_Witness == appEnv = "production" /\ stdlog # {} /\ \E p, q \in Procs : Succeeded(p, "send") /\ Returned(q, "send") /\ loc[q].status = "error"

====
